---- MODULE Spec2Model ----
(***************************************************************************)
(* Model of the time-accounting engine of time-audit: the timer state      *)
(* machine of src/src/store/AppContext.tsx (startTimer, pauseTimer,        *)
(* resumeTimer, stopTimer, getElapsedMs, the interrupted-session recovery  *)
(* actions and the reducer cases they dispatch) over the session store of  *)
(* src/src/main.tsx.  Every handler is one atomic action: its guard is the *)
(* handler's early return, its effect the database write followed by the   *)
(* dispatches.  The commands are the ones AppContext exports, so they can  *)
(* be invoked in any state once the application has loaded.                *)
(***************************************************************************)
EXTENDS Integers, Sequences, FiniteSets, TLC

VARIABLES
  now,                 \* Date.now(), in milliseconds
  nextId,              \* number of the next session id genId() hands out
  store,               \* the 'sessions' object store: id -> Session
  sessions,            \* state.sessions
  timer,               \* state.timer (NoTimer models null)
  interruptedSession,  \* state.interruptedSession (NoSession models null)
  loaded,              \* state.loaded
  elapsed,             \* what getElapsedMs() returned, if it was the last call (else Null)
  runMs,               \* history: time the timer made by the last start has spent running
  scn,                 \* history: position reached in Scenario
  calls,               \* handler invocations suspended at their `await db...`, oldest first
  result,              \* how the promise of the last settled command settled
  aggIn,               \* analytics: the time zone, the sessions and the date range given to aggregateToDays
  aggOut,              \* analytics: the DayData[] it returned (done is FALSE until it has)
  viewIn,              \* analytics screen: state.categories, selectedIds and the exclude-zero-days setting
  viewOut,             \* analytics screen: the values its render has computed so far
  categories,          \* state.categories
  nextCatId,           \* category screen: number of the next id its genId() hands out
  catOps               \* history: number of handlers of the category screen and of the data handlers that have run

vars == <<now, nextId, store, sessions, timer, interruptedSession, loaded,
          elapsed, runMs, scn, calls, result, aggIn, aggOut, viewIn, viewOut,
          categories, nextCatId, catOps>>

\* the variables only the handlers suspended at an await use
asyncVars == <<calls, result>>

\* the variables of the analytics functions
analyticsVars == <<aggIn, aggOut, viewIn, viewOut>>

\* the variables of the category screen
categoryVars == <<categories, nextCatId, catOps>>

\* ---------------------------------------------------------------- bounds
MaxTicks == 3
MaxSessions == 2
MaxIntervals == 2
MaxCalls == 2
MaxAsyncTicks == 1
MaxDay == 2
MaxAggSessions == 2
MaxViewDay == 8
MaxViewSessions == 2
MaxCategories == 3
MaxCatOps == 6
MaxDataOps == 1

\* One step of the modelled clock: one minute, in milliseconds.
Tick == 60 * 1000

TaskIds == {"A", "B"}

\* ---------------------------------------------------------------- data
\* null of `end: number | null` and `intervalStart: number | null`
Null == 0 - 1

\* TimeInterval { start, end }
Interval(s, e) == [start |-> s, end |-> e]

\* Session { id, taskId, intervals }
Session(id, taskId, ivs) == [id |-> id, taskId |-> taskId, intervals |-> ivs]

\* `Session | null`: null
NoSession == [id |-> 0, taskId |-> "-", intervals |-> <<>>]

\* `ActiveTimer | null`: null (the status of no timer is idle)
NoTimer ==
  [sessionId |-> 0, taskId |-> "-", status |-> "idle", intervals |-> <<>>,
   elapsedMs |-> 0, intervalStart |-> Null]

\* a `Promise<void>` fulfils with undefined; a throw after the await rejects it
Fulfilled == "undefined"
Rejected == "rejected"
NoResult == "none"

\* JavaScript truthiness of a `number | null`: null and 0 are falsy
Truthy(n) == n # Null /\ n # 0

\* iv.end ?? at
EndOr(iv, at) == IF iv.end = Null THEN at ELSE iv.end

\* the accumulator of an adopted session starts empty
SumIntervalsNone(ivs, at) == 0

RECURSIVE SumIntervals(_, _)
\* intervals.reduce((acc, iv) => acc + ((iv.end ?? at) - iv.start), 0)
SumIntervals(ivs, at) ==
  IF ivs = <<>> THEN 0
  ELSE (EndOr(Head(ivs), at) - Head(ivs).start) + SumIntervals(Tail(ivs), at)

\* ---------------------------------------------------------------- reducer
\* case 'UPSERT_SESSION'
UpsertSession(list, s) ==
  IF \E i \in 1..Len(list) : list[i].id = s.id
  THEN [i \in 1..Len(list) |-> IF list[i].id = s.id THEN s ELSE list[i]]
  ELSE Append(list, s)

\* case 'DELETE_SESSION'
DeleteSession(list, id) == SelectSeq(list, LAMBDA s : s.id # id)

\* ---------------------------------------------------------------- db
\* db.upsertSession: store.put(session)
dbUpsertSession(st, s) ==
  [i \in DOMAIN st \cup {s.id} |-> IF i = s.id THEN s ELSE st[i]]

\* a delete that does not reach the object store
dbDeleteSessionNone(st, id) == st

\* db.deleteSession: store.delete(id)
dbDeleteSession(st, id) == [i \in DOMAIN st \ {id} |-> st[i]]

RECURSIVE KeysInOrder(_)
KeysInOrder(S) ==
  IF S = {} THEN <<>>
  ELSE LET m == CHOOSE x \in S : \A y \in S : x <= y
       IN <<m>> \o KeysInOrder(S \ {m})

\* db.getAllSessions: store.getAll(), in key order
dbGetAllSessions(st) ==
  LET ks == KeysInOrder(DOMAIN st) IN [i \in 1..Len(ks) |-> st[ks[i]]]

\* ---------------------------------------------------------------- helpers
\* s.intervals.some((iv) => iv.end === null)
HasOpen(s) == \E i \in 1..Len(s.intervals) : s.intervals[i].end = Null

\* Math.max(...s.intervals.map((iv) => iv.start))
MaxStart(s) ==
  CHOOSE m \in {s.intervals[i].start : i \in 1..Len(s.intervals)} :
    \A i \in 1..Len(s.intervals) : s.intervals[i].start <= m

\* the sessions with an open interval are not sorted: the first one is taken
findInterruptedSessionFirst(list) ==
  LET interrupted == SelectSeq(list, HasOpen) IN
  IF Len(interrupted) = 0 THEN NoSession ELSE interrupted[1]

\* findInterruptedSession: the first element of the (stable) sort of the
\* sessions with an open interval by descending MaxStart
findInterruptedSession(list) ==
  LET interrupted == SelectSeq(list, HasOpen) IN
  IF Len(interrupted) = 0 THEN NoSession
  ELSE LET best == CHOOSE i \in 1..Len(interrupted) :
                     /\ \A j \in 1..Len(interrupted) :
                          MaxStart(interrupted[j]) <= MaxStart(interrupted[i])
                     /\ \A j \in 1..(i - 1) :
                          MaxStart(interrupted[j]) < MaxStart(interrupted[i])
       IN interrupted[best]

\* the dangling interval is closed where it started
CloseOpenAtStart(ivs, at) ==
  [i \in 1..Len(ivs) |->
     IF ivs[i].end = Null THEN Interval(ivs[i].start, ivs[i].start) ELSE ivs[i]]

\* the dangling interval is left open
CloseOpenNone(ivs, at) == ivs

\* intervals.map((iv) => iv.end === null ? { ...iv, end: at } : iv)
CloseOpen(ivs, at) ==
  [i \in 1..Len(ivs) |-> IF ivs[i].end = Null THEN Interval(ivs[i].start, at) ELSE ivs[i]]

\* intervals.map((iv, i) => i === length - 1 ? { ...iv, end: at } : iv)
CloseLast(ivs, at) ==
  [i \in 1..Len(ivs) |-> IF i = Len(ivs) THEN Interval(ivs[i].start, at) ELSE ivs[i]]

\* the trailing interval is left open
CloseLastIfOpenNone(ivs, at) == ivs

\* intervals.map((iv, i) => i === length - 1 && iv.end === null ? {...iv, end: at} : iv)
CloseLastIfOpen(ivs, at) ==
  [i \in 1..Len(ivs) |->
     IF i = Len(ivs) /\ ivs[i].end = Null THEN Interval(ivs[i].start, at) ELSE ivs[i]]

\* the guard of pauseTimer lets a paused timer through
PauseRejectedIdleOnly(t) == t = NoTimer

\* pauseTimer's guard: !timer || timer.status !== 'running' || !timer.intervalStart
PauseRejected(t) ==
  t = NoTimer \/ t.status # "running" \/ ~Truthy(t.intervalStart)

\* the accumulator is overwritten by the length of the last interval
PauseElapsedLastOnly(t, at) == at - t.intervalStart

\* pauseTimer: const elapsed = timer.elapsedMs + (now - timer.intervalStart)
PauseElapsed(t, at) == t.elapsedMs + (at - t.intervalStart)

\* pauseTimer: const updated = { ...timer, status: 'paused', ... }
PausedTimer(t, at) ==
  [t EXCEPT !.status = "paused",
            !.intervals = CloseLast(t.intervals, at),
            !.elapsedMs = PauseElapsed(t, at),
            !.intervalStart = Null]

\* the earlier intervals are dropped on resume
ResumedTimerFresh(t, at) ==
  [t EXCEPT !.status = "running",
            !.intervals = <<Interval(at, Null)>>,
            !.intervalStart = at]

\* resumeTimer: const updated = { ...timer, status: 'running', ... }
ResumedTimer(t, at) ==
  [t EXCEPT !.status = "running",
            !.intervals = Append(t.intervals, Interval(at, Null)),
            !.intervalStart = at]

\* the accumulator starts at the clock value instead of 0
NewTimerAtClock(sessionId, taskId, at) ==
  [sessionId |-> sessionId, taskId |-> taskId, status |-> "running",
   intervals |-> <<Interval(at, Null)>>, elapsedMs |-> at, intervalStart |-> at]

\* startTimer: const newTimer = { sessionId, taskId, status: 'running', ... }
NewTimer(sessionId, taskId, at) ==
  [sessionId |-> sessionId, taskId |-> taskId, status |-> "running",
   intervals |-> <<Interval(at, Null)>>, elapsedMs |-> 0, intervalStart |-> at]

\* getElapsedMs
getElapsedMs(t, at) ==
  IF t = NoTimer THEN 0
  ELSE IF t.status = "running" /\ Truthy(t.intervalStart)
       THEN t.elapsedMs + (at - t.intervalStart)
       ELSE t.elapsedMs

RECURSIVE TotalIntervals(_)
\* the number of intervals the store holds
TotalIntervals(st) ==
  IF DOMAIN st = {} THEN 0
  ELSE LET id == CHOOSE i \in DOMAIN st : TRUE
       IN Len(st[id].intervals) + TotalIntervals([i \in DOMAIN st \ {id} |-> st[i]])

\* ---------------------------------------------------------------- history
Scenario ==
  << <<"start", 0>>, <<"pause", 60000>>, <<"resume", 120000>>, <<"stopSave", 180000>> >>

Derailed == Len(Scenario) + 1

\* the position in Scenario after operation op is invoked at time now
Follow(op) ==
  IF scn < Len(Scenario) /\ Scenario[scn + 1] = <<op, now>> THEN scn + 1 ELSE Derailed

\* no call of aggregateToDays yet
NoAggInput == [zone |-> "fixed", sessions |-> <<>>, dateStart |-> 0, dateEnd |-> 0]
NotAggregated == [done |-> FALSE, days |-> <<>>]

\* a id that is null: the parentId of a root item
NoId == "-"

\* the number 0 as the result of a division (see Divide)
Zero == [num |-> 0, den |-> 1]

\* before the analytics screen is rendered
NoViewInput == [categories |-> <<>>, selectedIds |-> {}, excludeZeroDays |-> FALSE]
NotRendered ==
  [stage |-> 0, effectiveMap |-> <<>>, days |-> <<>>, totalMs |-> 0,
   activeDays |-> 0, avgPerDayMs |-> Zero, taskAvg |-> <<>>, dowData |-> <<>>]

\* ---------------------------------------------------------------- Init
Init ==
  /\ now = 0
  /\ nextId = 1
  /\ store = [i \in {} |-> NoSession]
  /\ sessions = <<>>
  /\ timer = NoTimer
  /\ interruptedSession = NoSession
  /\ loaded = FALSE
  /\ elapsed = Null
  /\ runMs = Null
  /\ scn = 0
  /\ calls = <<>>
  /\ result = NoResult
  /\ aggIn = NoAggInput
  /\ aggOut = NotAggregated
  /\ viewIn = NoViewInput
  /\ viewOut = NotRendered
  /\ categories = <<>>
  /\ nextCatId = 1
  /\ catOps = 0

\* ---------------------------------------------------------------- actions
\* The clock moves on by one tick; a running started timer accrues it.
Advance ==
  /\ now < MaxTicks * Tick
  /\ now' = now + Tick
  /\ runMs' = IF runMs # Null /\ timer.status = "running" THEN runMs + Tick ELSE runMs
  /\ elapsed' = Null
  /\ UNCHANGED <<nextId, store, sessions, timer, interruptedSession, loaded, scn>>
  /\ UNCHANGED asyncVars
  /\ UNCHANGED analyticsVars
  /\ UNCHANGED categoryVars

\* reloadAll on mount, and the reducer's LOADED case
Load ==
  /\ ~loaded
  /\ LET all == dbGetAllSessions(store) IN
       /\ sessions' = all
       /\ interruptedSession' = findInterruptedSession(all)
  /\ loaded' = TRUE
  /\ elapsed' = Null
  /\ UNCHANGED <<now, nextId, store, timer, runMs, scn>>
  /\ UNCHANGED asyncVars
  /\ UNCHANGED analyticsVars
  /\ UNCHANGED categoryVars

\* The application terminates: the in-memory state is lost, the store stays.
Crash ==
  /\ loaded
  /\ sessions' = <<>>
  /\ timer' = NoTimer
  /\ interruptedSession' = NoSession
  /\ loaded' = FALSE
  /\ elapsed' = Null
  /\ runMs' = Null
  /\ scn' = Derailed
  /\ calls' = <<>>
  /\ result' = NoResult
  /\ UNCHANGED <<now, nextId, store>>
  /\ UNCHANGED analyticsVars
  /\ UNCHANGED categoryVars

\* startTimer(taskId)
StartTimer(taskId) ==
  /\ loaded
  /\ nextId <= MaxSessions
  /\ TotalIntervals(store) < MaxIntervals
  /\ LET sessionId == nextId
         interval == Interval(now, Null)
         newTimer == NewTimer(sessionId, taskId, now)
         session == Session(sessionId, taskId, <<interval>>)
     IN /\ store' = dbUpsertSession(store, session)
        /\ sessions' = UpsertSession(sessions, session)
        /\ timer' = newTimer
  /\ nextId' = nextId + 1
  /\ runMs' = 0
  /\ scn' = Follow("start")
  /\ elapsed' = Null
  /\ UNCHANGED <<now, interruptedSession, loaded>>
  /\ UNCHANGED asyncVars
  /\ UNCHANGED analyticsVars
  /\ UNCHANGED categoryVars

\* pauseTimer()
PauseTimer ==
  /\ loaded
  /\ IF PauseRejected(timer)
     THEN UNCHANGED <<store, sessions, timer>>
     ELSE LET closedIntervals == CloseLast(timer.intervals, now)
              updated == PausedTimer(timer, now)
              session == Session(timer.sessionId, timer.taskId, closedIntervals)
          IN /\ store' = dbUpsertSession(store, session)
             /\ sessions' = UpsertSession(sessions, session)
             /\ timer' = updated
  /\ scn' = Follow("pause")
  /\ elapsed' = Null
  /\ UNCHANGED <<now, nextId, interruptedSession, loaded, runMs>>
  /\ UNCHANGED asyncVars
  /\ UNCHANGED analyticsVars
  /\ UNCHANGED categoryVars

\* resumeTimer()
ResumeTimer ==
  /\ loaded
  /\ IF timer = NoTimer \/ timer.status # "paused"
     THEN UNCHANGED <<store, sessions, timer>>
     ELSE LET updated == ResumedTimer(timer, now)
              session == Session(timer.sessionId, timer.taskId, updated.intervals)
          IN /\ TotalIntervals(store) < MaxIntervals
             /\ store' = dbUpsertSession(store, session)
             /\ sessions' = UpsertSession(sessions, session)
             /\ timer' = updated
  /\ scn' = Follow("resume")
  /\ elapsed' = Null
  /\ UNCHANGED <<now, nextId, interruptedSession, loaded, runMs>>
  /\ UNCHANGED asyncVars
  /\ UNCHANGED analyticsVars
  /\ UNCHANGED categoryVars

\* stopTimer(save)
StopTimer(save) ==
  /\ loaded
  /\ IF timer = NoTimer
     THEN UNCHANGED <<store, sessions, timer>>
     ELSE /\ IF save
             THEN LET closedIntervals == CloseLastIfOpen(timer.intervals, now)
                      session == Session(timer.sessionId, timer.taskId, closedIntervals)
                  IN /\ store' = dbUpsertSession(store, session)
                     /\ sessions' = UpsertSession(sessions, session)
             ELSE /\ store' = dbDeleteSession(store, timer.sessionId)
                  /\ sessions' = DeleteSession(sessions, timer.sessionId)
          /\ timer' = NoTimer
  /\ scn' = Follow(IF save THEN "stopSave" ELSE "stopCancel")
  /\ elapsed' = Null
  /\ runMs' = IF timer = NoTimer \/ save THEN runMs ELSE Null
  /\ UNCHANGED <<now, nextId, interruptedSession, loaded>>
  /\ UNCHANGED asyncVars
  /\ UNCHANGED analyticsVars
  /\ UNCHANGED categoryVars

\* getElapsedMs(), called on every display refresh
GetElapsedMs ==
  /\ loaded
  /\ elapsed' = getElapsedMs(timer, now)
  /\ UNCHANGED <<now, nextId, store, sessions, timer, interruptedSession, loaded, runMs, scn>>
  /\ UNCHANGED asyncVars
  /\ UNCHANGED analyticsVars
  /\ UNCHANGED categoryVars

\* resumeInterrupted(session), invoked by the banner with state.interruptedSession
ResumeInterrupted ==
  /\ loaded
  /\ interruptedSession # NoSession
  /\ TotalIntervals(store) < MaxIntervals
  /\ LET session == interruptedSession
         closedIntervals == CloseOpen(session.intervals, now)
         newIntervals == Append(closedIntervals, Interval(now, Null))
         elapsedMs == SumIntervals(closedIntervals, now)
         updatedSession == [session EXCEPT !.intervals = newIntervals]
     IN /\ store' = dbUpsertSession(store, updatedSession)
        /\ sessions' = UpsertSession(sessions, updatedSession)
        /\ timer' = [sessionId |-> session.id, taskId |-> session.taskId,
                     status |-> "running", intervals |-> newIntervals,
                     elapsedMs |-> elapsedMs, intervalStart |-> now]
  /\ interruptedSession' = NoSession
  /\ runMs' = Null
  /\ scn' = Derailed
  /\ elapsed' = Null
  /\ UNCHANGED <<now, nextId, loaded>>
  /\ UNCHANGED asyncVars
  /\ UNCHANGED analyticsVars
  /\ UNCHANGED categoryVars

\* closeInterrupted(session), invoked by the banner with state.interruptedSession
CloseInterrupted ==
  /\ loaded
  /\ interruptedSession # NoSession
  /\ LET session == interruptedSession
         updatedSession == [session EXCEPT !.intervals = CloseOpen(session.intervals, now)]
     IN /\ store' = dbUpsertSession(store, updatedSession)
        /\ sessions' = UpsertSession(sessions, updatedSession)
  /\ interruptedSession' = NoSession
  /\ scn' = Derailed
  /\ elapsed' = Null
  /\ UNCHANGED <<now, nextId, timer, loaded, runMs>>
  /\ UNCHANGED asyncVars
  /\ UNCHANGED analyticsVars
  /\ UNCHANGED categoryVars

\* the Dismiss button runs the handler of the Close button
DismissInterruptedAsClose == CloseInterrupted

\* dismissInterrupted(), invoked by the banner
DismissInterrupted ==
  /\ loaded
  /\ interruptedSession # NoSession
  /\ interruptedSession' = NoSession
  /\ scn' = Derailed
  /\ elapsed' = Null
  /\ UNCHANGED <<now, nextId, store, sessions, timer, loaded, runMs>>
  /\ UNCHANGED asyncVars
  /\ UNCHANGED analyticsVars
  /\ UNCHANGED categoryVars

Next ==
  \/ Advance
  \/ Load
  \/ Crash
  \/ \E taskId \in TaskIds : StartTimer(taskId)
  \/ PauseTimer
  \/ ResumeTimer
  \/ \E save \in BOOLEAN : StopTimer(save)
  \/ GetElapsedMs
  \/ ResumeInterrupted
  \/ CloseInterrupted
  \/ DismissInterrupted

Spec == Init /\ [][Next]_vars

\* ---------------------------------------------------------------- await
\* The same handlers with their suspension point: a handler runs up to its
\* `await db.upsertSession(...)` / `await db.deleteSession(...)`, and the
\* dispatches that follow the await run when the write has settled.  Writes
\* to the 'sessions' store settle in the order they were requested.

\* a handler suspended at its await: the write it requested and the
\* dispatches that follow the await
Call(op, write, session, setTimer, t, clear) ==
  [op |-> op, write |-> write, session |-> session,
   setTimer |-> setTimer, timer |-> t, clear |-> clear,
   behind |-> Len(calls)]  \* writes still in flight when this one was requested

\* the dispatches do not wait for the outcome of the write
DispatchedAnyway(ok) == TRUE

\* the dispatches follow `await db...`: they run iff the write did not throw
Dispatched(ok) == ok

\* startTimer(taskId), up to its await
StartTimerCall(taskId) ==
  /\ loaded
  /\ Len(calls) < MaxCalls
  /\ nextId <= MaxSessions
  /\ TotalIntervals(store) < MaxIntervals
  /\ LET sessionId == nextId
         session == Session(sessionId, taskId, <<Interval(now, Null)>>)
     IN calls' = Append(calls, Call("start", "put", session, TRUE,
                                    NewTimer(sessionId, taskId, now), FALSE))
  /\ nextId' = nextId + 1
  /\ UNCHANGED <<now, store, sessions, timer, interruptedSession, loaded,
                 elapsed, runMs, scn, result>>
  /\ UNCHANGED analyticsVars
  /\ UNCHANGED categoryVars

\* pauseTimer(), up to its await; the guard reads stateRef.current
PauseTimerCall ==
  /\ loaded
  /\ IF PauseRejected(timer)
     THEN /\ result' = Fulfilled
          /\ UNCHANGED calls
     ELSE /\ Len(calls) < MaxCalls
          /\ LET session == Session(timer.sessionId, timer.taskId,
                                    CloseLast(timer.intervals, now))
             IN calls' = Append(calls, Call("pause", "put", session, TRUE,
                                            PausedTimer(timer, now), FALSE))
          /\ UNCHANGED result
  /\ UNCHANGED <<now, nextId, store, sessions, timer, interruptedSession, loaded,
                 elapsed, runMs, scn>>
  /\ UNCHANGED analyticsVars
  /\ UNCHANGED categoryVars

\* resumeTimer(), up to its await
ResumeTimerCall ==
  /\ loaded
  /\ IF timer = NoTimer \/ timer.status # "paused"
     THEN /\ result' = Fulfilled
          /\ UNCHANGED calls
     ELSE /\ Len(calls) < MaxCalls
          /\ TotalIntervals(store) < MaxIntervals
          /\ LET updated == ResumedTimer(timer, now)
                 session == Session(timer.sessionId, timer.taskId, updated.intervals)
             IN calls' = Append(calls, Call("resume", "put", session, TRUE, updated, FALSE))
          /\ UNCHANGED result
  /\ UNCHANGED <<now, nextId, store, sessions, timer, interruptedSession, loaded,
                 elapsed, runMs, scn>>
  /\ UNCHANGED analyticsVars
  /\ UNCHANGED categoryVars

\* stopTimer(save), up to its await
StopTimerCall(save) ==
  /\ loaded
  /\ IF timer = NoTimer
     THEN /\ result' = Fulfilled
          /\ UNCHANGED calls
     ELSE /\ Len(calls) < MaxCalls
          /\ LET session == Session(timer.sessionId, timer.taskId,
                                    CloseLastIfOpen(timer.intervals, now))
             IN calls' = Append(calls,
                                IF save
                                THEN Call("stopSave", "put", session, TRUE, NoTimer, FALSE)
                                ELSE Call("stopCancel", "delete", session, TRUE, NoTimer, FALSE))
          /\ UNCHANGED result
  /\ UNCHANGED <<now, nextId, store, sessions, timer, interruptedSession, loaded,
                 elapsed, runMs, scn>>
  /\ UNCHANGED analyticsVars
  /\ UNCHANGED categoryVars

\* resumeInterrupted(state.interruptedSession), up to its await
ResumeInterruptedCall ==
  /\ loaded
  /\ interruptedSession # NoSession
  /\ Len(calls) < MaxCalls
  /\ TotalIntervals(store) < MaxIntervals
  /\ LET session == interruptedSession
         closedIntervals == CloseOpen(session.intervals, now)
         newIntervals == Append(closedIntervals, Interval(now, Null))
         newTimer == [sessionId |-> session.id, taskId |-> session.taskId,
                      status |-> "running", intervals |-> newIntervals,
                      elapsedMs |-> SumIntervals(closedIntervals, now),
                      intervalStart |-> now]
     IN calls' = Append(calls, Call("resumeInterrupted", "put",
                                    [session EXCEPT !.intervals = newIntervals],
                                    TRUE, newTimer, TRUE))
  /\ UNCHANGED <<now, nextId, store, sessions, timer, interruptedSession, loaded,
                 elapsed, runMs, scn, result>>
  /\ UNCHANGED analyticsVars
  /\ UNCHANGED categoryVars

\* closeInterrupted(state.interruptedSession), up to its await
CloseInterruptedCall ==
  /\ loaded
  /\ interruptedSession # NoSession
  /\ Len(calls) < MaxCalls
  /\ LET session == interruptedSession
         updatedSession == [session EXCEPT !.intervals = CloseOpen(session.intervals, now)]
     IN calls' = Append(calls, Call("closeInterrupted", "put", updatedSession,
                                    FALSE, NoTimer, TRUE))
  /\ UNCHANGED <<now, nextId, store, sessions, timer, interruptedSession, loaded,
                 elapsed, runMs, scn, result>>
  /\ UNCHANGED analyticsVars
  /\ UNCHANGED categoryVars

\* The oldest requested write settles: it is applied (ok) or throws, and the
\* handler that awaited it runs to its end.
DbSettle(ok) ==
  /\ calls # <<>>
  /\ LET c == Head(calls) IN
       /\ store' = IF ~ok THEN store
                   ELSE IF c.write = "put" THEN dbUpsertSession(store, c.session)
                   ELSE dbDeleteSession(store, c.session.id)
       /\ IF Dispatched(ok)
          THEN /\ sessions' = IF c.write = "put" THEN UpsertSession(sessions, c.session)
                              ELSE DeleteSession(sessions, c.session.id)
               /\ timer' = IF c.setTimer THEN c.timer ELSE timer
               /\ interruptedSession' = IF c.clear THEN NoSession ELSE interruptedSession
          ELSE UNCHANGED <<sessions, timer, interruptedSession>>
  /\ calls' = Tail(calls)
  /\ result' = IF ok THEN Fulfilled ELSE Rejected
  /\ UNCHANGED <<now, nextId, loaded, elapsed, runMs, scn>>
  /\ UNCHANGED analyticsVars
  /\ UNCHANGED categoryVars

NextAsync ==
  \/ (now < MaxAsyncTicks * Tick /\ Advance)
  \/ Load
  \/ (calls = <<>> /\ Crash)
  \/ \E taskId \in TaskIds : StartTimerCall(taskId)
  \/ PauseTimerCall
  \/ ResumeTimerCall
  \/ \E save \in BOOLEAN : StopTimerCall(save)
  \/ ResumeInterruptedCall
  \/ CloseInterruptedCall
  \/ DismissInterrupted
  \/ \E ok \in BOOLEAN : DbSettle(ok)

SpecAsync == Init /\ [][NextAsync]_vars

\* The same handlers used one at a time: the caller awaits the promise of a
\* command before it issues the next one.
NextAwait ==
  \/ (now < MaxAsyncTicks * Tick /\ Advance)
  \/ Load
  \/ (calls = <<>> /\ Crash)
  \/ (calls = <<>> /\ \E taskId \in TaskIds : StartTimerCall(taskId))
  \/ (calls = <<>> /\ PauseTimerCall)
  \/ (calls = <<>> /\ ResumeTimerCall)
  \/ (calls = <<>> /\ \E save \in BOOLEAN : StopTimerCall(save))
  \/ (calls = <<>> /\ ResumeInterruptedCall)
  \/ (calls = <<>> /\ CloseInterruptedCall)
  \/ (calls = <<>> /\ DismissInterrupted)
  \/ \E ok \in BOOLEAN : DbSettle(ok)

SpecAwait == Init /\ [][NextAwait]_vars

\* ---------------------------------------------------------------- analytics
\* src/src/screens/analyticsUtils.ts.  A date 'YYYY-MM-DD' is the number of
\* the local calendar day, counted from the day that starts at instant 0.
\* The Date arithmetic of the code depends on the time zone of the device:
\* a zone without daylight saving, or one whose clocks change on the local
\* date TransitionDay, forward at 02:00 or at 00:00, or back at 02:00.

Hour == 60 * 60 * 1000

\* dayBounds: 24 * 60 * 60 * 1000
DayMs == 24 * 60 * 60 * 1000

Zones == {"fixed", "forward02", "back02", "forward00"}

TransitionDay == 1

Min(a, b) == IF a <= b THEN a ELSE b
Max(a, b) == IF a >= b THEN a ELSE b

\* the length of local calendar day d in zone z
DayLength(z, d) ==
  IF z = "fixed" \/ d # TransitionDay THEN 24 * Hour
  ELSE IF z = "back02" THEN 25 * Hour
  ELSE 23 * Hour

RECURSIVE DayStart(_, _)
\* the instant at which local calendar day d begins in zone z
DayStart(z, d) == IF d = 0 THEN 0 ELSE DayStart(z, d - 1) + DayLength(z, d - 1)

\* Date.prototype.getDate & co.: the local calendar day an instant falls on
LocalDay(z, ts) ==
  CHOOSE d \in 0..(Max(MaxDay, MaxViewDay) + 2) : DayStart(z, d) <= ts /\ ts < DayStart(z, d + 1)

\* the local wall-clock time of day an instant shows (ms after 00:00)
WallClock(z, ts) ==
  LET d == LocalDay(z, ts)
      off == ts - DayStart(z, d)
  IN IF z = "fixed" \/ d # TransitionDay THEN off
     ELSE IF z = "forward00" THEN off + Hour
     ELSE IF z = "forward02" THEN (IF off < 2 * Hour THEN off ELSE off + Hour)
     ELSE (IF off < 2 * Hour THEN off ELSE off - Hour)

\* the instant of wall-clock time tod on local day d; a skipped or repeated
\* time is read with the offset in force before the transition
FromLocal(z, d, tod) ==
  IF z = "fixed" \/ d # TransitionDay THEN DayStart(z, d) + tod
  ELSE IF z = "forward00"
       THEN (IF tod < Hour THEN DayStart(z, d) + tod ELSE DayStart(z, d) + tod - Hour)
  ELSE IF z = "forward02"
       THEN (IF tod < 3 * Hour THEN DayStart(z, d) + tod ELSE DayStart(z, d) + tod - Hour)
  ELSE (IF tod < 2 * Hour THEN DayStart(z, d) + tod ELSE DayStart(z, d) + tod + Hour)

\* toLocalDate(ts)
toLocalDate(z, ts) == LocalDay(z, ts)

\* new Date(date + 'T00:00:00').getTime()
LocalMidnight(z, date) == FromLocal(z, date, 0)

\* cur.setDate(cur.getDate() + 1): the next local day at the same wall-clock time
SetNextDate(z, cur) == FromLocal(z, LocalDay(z, cur) + 1, WallClock(z, cur))

RECURSIVE DatesFrom(_, _, _)
\* dateRange: while (cur <= endDate) { dates.push(toLocalDate(cur)); cur.setDate(...) }
DatesFrom(z, cur, endDate) ==
  IF cur <= endDate
  THEN <<toLocalDate(z, cur)>> \o DatesFrom(z, SetNextDate(z, cur), endDate)
  ELSE <<>>

\* dateRange(start, end)
dateRange(z, start, end) == DatesFrom(z, LocalMidnight(z, start), LocalMidnight(z, end))

\* overlap(a, b, c, d)
overlap(a, b, c, d) == Max(0, Min(b, d) - Max(a, c))

\* dayBounds(date)
dayBounds(z, date) == <<LocalMidnight(z, date), LocalMidnight(z, date) + DayMs>>

RECURSIVE IntervalMs(_, _, _, _)
\* the inner loop of aggregateToDays over the intervals of one
\* session: the ms they add for the day [dayStart, dayEnd], if the session
\* is counted
IntervalMs(ivs, dayStart, dayEnd, count) ==
  IF ivs = <<>> THEN 0
  ELSE LET iv == Head(ivs)
           ms == IF iv.end = Null THEN 0 ELSE overlap(iv.start, iv.end, dayStart, dayEnd)
       IN (IF count /\ ms > 0 THEN ms ELSE 0)
          + IntervalMs(Tail(ivs), dayStart, dayEnd, count)

RECURSIVE SessionsMs(_, _, _, _)
\* the outer loop of aggregateToDays: the ms the sessions of the tasks in
\* tasks add for the day [dayStart, dayEnd]
SessionsMs(list, dayStart, dayEnd, tasks) ==
  IF list = <<>> THEN 0
  ELSE IntervalMs(Head(list).intervals, dayStart, dayEnd, Head(list).taskId \in tasks)
       + SessionsMs(Tail(list), dayStart, dayEnd, tasks)

\* the DayData of one date: { date, totalMs, byTask }; byTask has a key for
\* every task that added ms > 0
DayData(z, list, date) ==
  LET b == dayBounds(z, date)
      keys == {t \in TaskIds : SessionsMs(list, b[1], b[2], {t}) > 0}
  IN [date |-> date,
      totalMs |-> SessionsMs(list, b[1], b[2], TaskIds),
      byTask |-> [t \in keys |-> SessionsMs(list, b[1], b[2], {t})]]

\* aggregateToDays(sessions, dateStart, dateEnd)
aggregateToDays(z, list, dateStart, dateEnd) ==
  LET dates == dateRange(z, dateStart, dateEnd)
  IN [i \in 1..Len(dates) |-> DayData(z, list, dates[i])]

\* the local dates of the modelled calendar
Days == 0..MaxDay

\* the instants intervals start and end at: the first two hours of every day
\* of a zone without daylight saving
Instants == {d * DayMs + h * Hour : d \in 0..MaxDay, h \in {0, 1}}

\* the intervals of the sessions given to the aggregator: closed ones no
\* longer than 25 hours, and open ones
AggIntervals ==
  {Interval(p[1], p[2]) :
     p \in {q \in Instants \X Instants : q[1] < q[2] /\ q[2] - q[1] <= 25 * Hour}}
  \cup {Interval(a, Null) : a \in {0}}

AggSessions == {Session(1, t, <<iv>>) : t \in TaskIds, iv \in AggIntervals}

RECURSIVE SeqsUpTo(_, _)
\* the sequences over S of length at most n
SeqsUpTo(S, n) ==
  IF n = 0 THEN {<<>>}
  ELSE LET shorter == SeqsUpTo(S, n - 1)
       IN shorter \cup {Append(q, x) : q \in {r \in shorter : Len(r) = n - 1}, x \in S}

\* the calls of aggregateToDays: every date range over no or one session, and
\* the whole calendar over up to MaxAggSessions sessions
AggInputs ==
  {[zone |-> z, sessions |-> l, dateStart |-> a, dateEnd |-> b] :
     z \in Zones, a \in Days, b \in Days,
     l \in {<<>>, <<Session(1, "A", <<Interval(0, Hour)>>)>>}}
  \cup
  {[zone |-> z, sessions |-> l, dateStart |-> a, dateEnd |-> b] :
     z \in Zones, a \in {0}, b \in {MaxDay}, l \in SeqsUpTo(AggSessions, MaxAggSessions)}

\* the analytics screen is about to aggregate, after the last of the instants
InitAgg ==
  /\ now = MaxDay * DayMs + Hour
  /\ nextId = 1
  /\ store = [i \in {} |-> NoSession]
  /\ sessions = <<>>
  /\ timer = NoTimer
  /\ interruptedSession = NoSession
  /\ loaded = TRUE
  /\ elapsed = Null
  /\ runMs = Null
  /\ scn = Derailed
  /\ calls = <<>>
  /\ result = NoResult
  /\ aggIn \in AggInputs
  /\ aggOut = NotAggregated
  /\ viewIn = NoViewInput
  /\ viewOut = NotRendered
  /\ categories = <<>>
  /\ nextCatId = 1
  /\ catOps = 0

\* aggregateToDays(sessions, dateStart, dateEnd) is called and returns
AggregateToDays ==
  /\ ~aggOut.done
  /\ aggOut' = [done |-> TRUE,
                days |-> aggregateToDays(aggIn.zone, aggIn.sessions,
                                         aggIn.dateStart, aggIn.dateEnd)]
  /\ UNCHANGED <<now, nextId, store, sessions, timer, interruptedSession, loaded,
                 elapsed, runMs, scn, calls, result, aggIn, viewIn, viewOut,
                 categories, nextCatId, catOps>>

NextAgg == AggregateToDays

SpecAgg == InitAgg /\ [][NextAgg]_vars

\* ---------------------------------------------------------------- analytics screen
\* src/src/screens/analyticsUtils.ts (computeEffectiveDisplay,
\* mergeDayDataWithDisplay) and the render of AnalyticsScreen.  A Category is
\* { id, type, parentId } here; name, color and order play no part.

Category(id, type, parentId) == [id |-> id, type |-> type, parentId |-> parentId]

\* what categories.find(...) gives when no item has the id: undefined, whose
\* `?.parentId ?? null` is null
NoCategory == Category(NoId, "undefined", NoId)

\* categories.find((c) => c.id === id)
Find(cats, id) ==
  LET hits == SelectSeq(cats, LAMBDA c : c.id = id)
  IN IF hits = <<>> THEN NoCategory ELSE Head(hits)

RECURSIVE ChosenFarthest(_, _, _)
\* a walk that keeps the selected id furthest from the task
ChosenFarthest(cats, selectedIds, cur) ==
  IF cur = NoId THEN NoId
  ELSE LET above == ChosenFarthest(cats, selectedIds, Find(cats, cur).parentId)
       IN IF above # NoId THEN above
          ELSE IF cur \in selectedIds THEN cur ELSE NoId

RECURSIVE Chosen(_, _, _)
\* the while loop of computeEffectiveDisplay, from cur upwards: the first id
\* of the walk that is in selectedIds, or null when the walk ends without one
Chosen(cats, selectedIds, cur) ==
  IF cur = NoId THEN NoId
  ELSE IF cur \in selectedIds THEN cur
  ELSE Chosen(cats, selectedIds, Find(cats, cur).parentId)

\* computeEffectiveDisplay(categories, selectedIds): a Map from task id to
\* the chosen id, with an entry only `if (chosen)`
computeEffectiveDisplay(cats, selectedIds) ==
  LET tasks == SelectSeq(cats, LAMBDA c : c.type = "task")
      keys == {tasks[i].id : i \in 1..Len(tasks)}
  IN [t \in {k \in keys : Chosen(cats, selectedIds, k) # NoId}
        |-> Chosen(cats, selectedIds, t)]

RECURSIVE SumMs(_, _)
\* the sum of byTask[t] over the keys t in S
SumMs(byTask, S) ==
  IF S = {} THEN 0
  ELSE LET t == CHOOSE x \in S : TRUE
       IN byTask[t] + SumMs(byTask, S \ {t})

\* a merge that keeps a task without display id under its own id
MergedDayKeepAll(day, effectiveMap) ==
  LET DisplayOf(t) == IF t \in DOMAIN effectiveMap THEN effectiveMap[t] ELSE t
      keys == {DisplayOf(t) : t \in DOMAIN day.byTask}
  IN [date |-> day.date,
      totalMs |-> SumMs(day.byTask, DOMAIN day.byTask),
      byTask |-> [d \in keys |->
                    SumMs(day.byTask, {t \in DOMAIN day.byTask : DisplayOf(t) = d})]]

\* a merge that leaves the total of the day as it was
MergedDayRawTotal(day, effectiveMap) ==
  LET shown == {t \in DOMAIN day.byTask : t \in DOMAIN effectiveMap}
      keys == {effectiveMap[t] : t \in shown}
  IN [date |-> day.date,
      totalMs |-> day.totalMs,
      byTask |-> [d \in keys |->
                    SumMs(day.byTask, {t \in shown : effectiveMap[t] = d})]]

\* a merge in which a task overwrites the bucket of its display id
MergedDayOverwrite(day, effectiveMap) ==
  LET shown == {t \in DOMAIN day.byTask : t \in DOMAIN effectiveMap}
      keys == {effectiveMap[t] : t \in shown}
  IN [date |-> day.date,
      totalMs |-> SumMs(day.byTask, shown),
      byTask |-> [d \in keys |->
                    day.byTask[CHOOSE t \in shown : effectiveMap[t] = d]]]

\* the body of dayData.map in mergeDayDataWithDisplay: the entries of
\* day.byTask that have a display id, added up under it
MergedDay(day, effectiveMap) ==
  LET shown == {t \in DOMAIN day.byTask : t \in DOMAIN effectiveMap}
      keys == {effectiveMap[t] : t \in shown}
  IN [date |-> day.date,
      totalMs |-> SumMs(day.byTask, shown),
      byTask |-> [d \in keys |->
                    SumMs(day.byTask, {t \in shown : effectiveMap[t] = d})]]

\* mergeDayDataWithDisplay(dayData, effectiveMap)
mergeDayDataWithDisplay(dayData, effectiveMap) ==
  [i \in 1..Len(dayData) |-> MergedDay(dayData[i], effectiveMap)]

\* a / n of two numbers, n > 0: the quotient, kept as numerator and
\* denominator (JavaScript divides in floating point; the model keeps the
\* quotient exact)
Divide(a, n) == [num |-> a, den |-> n]

RECURSIVE ReduceTotalMs(_)
\* days.reduce((a, d) => a + d.totalMs, 0)
ReduceTotalMs(days) ==
  IF days = <<>> THEN 0 ELSE ReduceTotalMs(Tail(days)) + Head(days).totalMs

RECURSIVE ReduceByTask(_, _)
\* days.reduce((a, d) => a + (d.byTask[id] ?? 0), 0)
ReduceByTask(days, id) ==
  IF days = <<>> THEN 0
  ELSE ReduceByTask(Tail(days), id)
       + (IF id \in DOMAIN Head(days).byTask THEN Head(days).byTask[id] ELSE 0)

\* an activeDays that ignores the setting
activeDaysAll(days, excludeZeroDays) == days

\* activeDays: settings.analyticsExcludeZeroDays ? days.filter(d => d.totalMs > 0) : days
activeDays(days, excludeZeroDays) ==
  IF excludeZeroDays THEN SelectSeq(days, LAMBDA d : d.totalMs > 0) ELSE days

\* avgPerDayMs: activeDays.length > 0 ? totalMs / activeDays.length : 0
avgPerDayMs(totalMs, activeLength) ==
  IF activeLength > 0 THEN Divide(totalMs, activeLength) ELSE Zero

\* displayIds: the values of effectiveMap
displayIds(effectiveMap) == {effectiveMap[t] : t \in DOMAIN effectiveMap}

\* a taskAvg that divides by the number of all days
taskAvgAllDays(days, activeLength, ids) ==
  [id \in ids |-> IF Len(days) > 0 THEN Divide(ReduceByTask(days, id), Len(days))
                  ELSE Zero]

\* taskAvg: for every display id, its total over the days / activeDays.length
taskAvg(days, activeLength, ids) ==
  [id \in ids |-> IF activeLength > 0 THEN Divide(ReduceByTask(days, id), activeLength)
                  ELSE Zero]

\* the weekday of the date that starts at instant 0 (1970-01-01: a Thursday)
FirstWeekday == 4

\* new Date(day.date + 'T00:00:00').getDay(): 0 = Sunday .. 6 = Saturday
getDay(z, date) == (LocalDay(z, LocalMidnight(z, date)) + FirstWeekday) % 7

\* a loop that skips no day
DowCountedAll(day, excludeZeroDays) == TRUE

\* the days the loop of dowData does not skip:
\* if (settings.analyticsExcludeZeroDays && day.totalMs === 0) continue;
DowCounted(day, excludeZeroDays) == ~(excludeZeroDays /\ day.totalMs = 0)

\* totals[dow] after the loop of dowData: { totalMs, byTask, count }
DowTotals(z, days, excludeZeroDays, dow) ==
  LET counted == SelectSeq(days, LAMBDA d : DowCounted(d, excludeZeroDays)
                                           /\ getDay(z, d.date) = dow)
      keys == UNION {DOMAIN counted[i].byTask : i \in 1..Len(counted)}
  IN [count |-> Len(counted),
      totalMs |-> ReduceTotalMs(counted),
      byTask |-> [k \in keys |-> ReduceByTask(counted, k)]]

\* dowData: totals.map(t => ({ totalAvg, byTaskAvg }))
dowData(z, days, excludeZeroDays) ==
  [dow \in 0..6 |->
     LET t == DowTotals(z, days, excludeZeroDays, dow)
     IN [totalAvg |-> IF t.count > 0 THEN Divide(t.totalMs, t.count) ELSE Zero,
         byTaskAvg |-> [k \in DOMAIN t.byTask |->
                          IF t.count > 0 THEN Divide(t.byTask[k], t.count) ELSE Zero]]]

\* the folders and all the items of the modelled tree
Folders == {"F", "G"}
NodeIds == Folders \cup TaskIds

\* state.categories: G at the root, F at the root or in G, the tasks A and B
\* at the root or in a folder; B may have been deleted (its sessions are then
\* orphaned) and G may have been deleted with its children left behind
CategoryLists ==
  {SelectSeq(<<Category("G", "folder", NoId), Category("F", "folder", pf),
               Category("A", "task", pa), Category("B", "task", pb)>>,
             LAMBDA c : c.id \in keep) :
     pf \in {NoId, "G"}, pa \in {NoId, "F", "G"}, pb \in {NoId, "F", "G"},
     keep \in {NodeIds \ gone : gone \in SUBSET {"B", "G"}}}

\* the sessions the long calendar is aggregated from: an hour of A or two
\* hours of B on day 0, on day 1 and on the day a week after day 0
ViewSessions ==
  {Session(1, t, <<Interval(d * DayMs, d * DayMs + (IF t = "A" THEN 1 ELSE 2) * Hour)>>) :
     t \in TaskIds, d \in {0, 1, 7}}

\* the renders of the analytics screen: every tree and every selection over
\* two days; a folder with both tasks over MaxViewDay + 1 days and up to
\* MaxViewSessions sessions; and an empty date range
ViewInputs ==
  {<<[zone |-> "fixed",
      sessions |-> <<Session(1, "A", <<Interval(0, Hour)>>),
                     Session(2, "B", <<Interval(Hour, DayMs + Hour)>>)>>,
      dateStart |-> 0, dateEnd |-> 1],
     [categories |-> c, selectedIds |-> sel, excludeZeroDays |-> x]>> :
     c \in CategoryLists, sel \in SUBSET NodeIds, x \in BOOLEAN}
  \cup
  {<<[zone |-> "fixed", sessions |-> l, dateStart |-> 0, dateEnd |-> MaxViewDay],
     [categories |-> <<Category("F", "folder", NoId), Category("A", "task", "F"),
                       Category("B", "task", "F")>>,
      selectedIds |-> sel, excludeZeroDays |-> x]>> :
     l \in SeqsUpTo(ViewSessions, MaxViewSessions),
     sel \in {{"F"}, {"A", "B"}, {"A"}}, x \in BOOLEAN}
  \cup
  {<<[zone |-> "fixed", sessions |-> <<Session(1, "A", <<Interval(0, Hour)>>)>>,
      dateStart |-> 1, dateEnd |-> 0],
     [categories |-> <<Category("A", "task", NoId)>>,
      selectedIds |-> {"A"}, excludeZeroDays |-> x]>> : x \in BOOLEAN}

\* the analytics screen is about to render
InitView ==
  /\ now = MaxViewDay * DayMs + Hour
  /\ nextId = 1
  /\ store = [i \in {} |-> NoSession]
  /\ sessions = <<>>
  /\ timer = NoTimer
  /\ interruptedSession = NoSession
  /\ loaded = TRUE
  /\ elapsed = Null
  /\ runMs = Null
  /\ scn = Derailed
  /\ calls = <<>>
  /\ result = NoResult
  /\ \E inp \in ViewInputs : aggIn = inp[1] /\ viewIn = inp[2]
  /\ aggOut = NotAggregated
  /\ viewOut = NotRendered
  /\ categories = <<>>
  /\ nextCatId = 1
  /\ catOps = 0

timerVars == <<now, nextId, store, sessions, timer, interruptedSession, loaded,
               elapsed, runMs, scn, calls, result>>

\* const effectiveMap = useMemo(() => computeEffectiveDisplay(categories, selectedIds))
ComputeEffectiveDisplay ==
  /\ viewOut.stage = 0
  /\ viewOut' = [viewOut EXCEPT
       !.stage = 1,
       !.effectiveMap = computeEffectiveDisplay(viewIn.categories, viewIn.selectedIds)]
  /\ UNCHANGED <<timerVars, categoryVars, aggIn, aggOut, viewIn>>

\* const rawDays = useMemo(() => aggregateToDays(sessions, range.start, range.end))
RawDays ==
  /\ viewOut.stage = 1
  /\ AggregateToDays

\* const days = useMemo(() => mergeDayDataWithDisplay(rawDays, effectiveMap))
MergeDayDataWithDisplay ==
  /\ viewOut.stage = 1
  /\ aggOut.done
  /\ viewOut' = [viewOut EXCEPT
       !.stage = 2,
       !.days = mergeDayDataWithDisplay(aggOut.days, viewOut.effectiveMap)]
  /\ UNCHANGED <<timerVars, categoryVars, aggIn, aggOut, viewIn>>

\* totalMs, activeDays and avgPerDayMs
AvgPerDayMs ==
  /\ viewOut.stage = 2
  /\ LET total == ReduceTotalMs(viewOut.days)
         active == Len(activeDays(viewOut.days, viewIn.excludeZeroDays))
     IN viewOut' = [viewOut EXCEPT
          !.stage = 3,
          !.totalMs = total,
          !.activeDays = active,
          !.avgPerDayMs = avgPerDayMs(total, active)]
  /\ UNCHANGED <<timerVars, categoryVars, aggIn, aggOut, viewIn>>

\* const taskAvg = useMemo(...)
TaskAvg ==
  /\ viewOut.stage = 3
  /\ viewOut' = [viewOut EXCEPT
       !.stage = 4,
       !.taskAvg = taskAvg(viewOut.days, viewOut.activeDays,
                           displayIds(viewOut.effectiveMap))]
  /\ UNCHANGED <<timerVars, categoryVars, aggIn, aggOut, viewIn>>

\* const dowData = useMemo(...)
DowData ==
  /\ viewOut.stage = 4
  /\ viewOut' = [viewOut EXCEPT
       !.stage = 5,
       !.dowData = dowData(aggIn.zone, viewOut.days, viewIn.excludeZeroDays)]
  /\ UNCHANGED <<timerVars, categoryVars, aggIn, aggOut, viewIn>>

NextView ==
  \/ ComputeEffectiveDisplay
  \/ RawDays
  \/ MergeDayDataWithDisplay
  \/ AvgPerDayMs
  \/ TaskAvg
  \/ DowData

SpecView == InitView /\ [][NextView]_vars

\* ---------------------------------------------------------------- category screen
\* src/unnamed/part_004 (CategoriesScreen) with the reducer cases
\* UPSERT_CATEGORY, DELETE_CATEGORY and DELETE_SESSIONS_BY_TASK_IDS.  Every
\* handler writes the object store and then dispatches the same change, so
\* `categories` stands for both.  An item is { id, type, parentId, order };
\* name and color play no part.

Item(id, type, parentId, order) ==
  [id |-> id, type |-> type, parentId |-> parentId, order |-> order]

\* the ids genId() hands out, in the order it hands them out
CatPool == <<"c1", "c2", "c3", "c4", "c5", "c6">>

\* genId()
genId == CatPool[nextCatId]

\* the ids of the items of cats
Ids(cats) == {cats[i].id : i \in 1..Len(cats)}

\* the item of cats with the id
ItemOf(cats, id) == cats[CHOOSE i \in 1..Len(cats) : cats[i].id = id]

RECURSIVE InsertByOrder(_, _)
\* one step of the stable sort by order: c goes behind the items that do not
\* sort after it
InsertByOrder(sorted, c) ==
  IF sorted = <<>> THEN <<c>>
  ELSE IF Head(sorted).order <= c.order
       THEN <<Head(sorted)>> \o InsertByOrder(Tail(sorted), c)
       ELSE <<c>> \o sorted

RECURSIVE SortByOrder(_)
\* list.sort((a, b) => a.order - b.order)
SortByOrder(list) ==
  IF list = <<>> THEN <<>>
  ELSE InsertByOrder(SortByOrder(SubSeq(list, 1, Len(list) - 1)), list[Len(list)])

\* getSortedChildren(cats, parentId)
getSortedChildren(cats, parentId) ==
  SortByOrder(SelectSeq(cats, LAMBDA c : c.parentId = parentId))

RECURSIVE getAllDescendants(_, _)
\* getAllDescendants(cats, id): the ids of the children, of their children ...
\* (the code returns them as a list and only asks which ids it includes)
getAllDescendants(cats, id) ==
  LET direct == {c \in Ids(cats) : ItemOf(cats, c).parentId = id}
  IN direct \cup UNION {getAllDescendants(cats, cid) : cid \in direct}

RECURSIVE Rendered(_, _)
\* the items TreeRow renders below parentId: its children and, below each of
\* them, theirs
Rendered(cats, parentId) ==
  LET children == {c \in Ids(cats) : ItemOf(cats, c).parentId = parentId}
  IN children \cup UNION {Rendered(cats, cid) : cid \in children}

\* a parent select that offers every folder
foldersAll(cats, initialId) ==
  {c \in Ids(cats) : ItemOf(cats, c).type = "folder"}

\* EditModal, folders: the folders the parent select offers; editing the item
\* initialId (NoId for a new item) leaves out the item and its descendants
folders(cats, initialId) ==
  {c \in Ids(cats) :
     /\ ItemOf(cats, c).type = "folder"
     /\ ~(initialId # NoId /\ (c = initialId \/ c \in getAllDescendants(cats, initialId)))}

\* reducer, UPSERT_CATEGORY
UpsertCategory(cats, cat) ==
  IF cat.id \in Ids(cats)
  THEN [i \in 1..Len(cats) |-> IF cats[i].id = cat.id THEN cat ELSE cats[i]]
  ELSE Append(cats, cat)

\* reducer, DELETE_CATEGORY, for every id of ids
DeleteCategories(cats, ids) == SelectSeq(cats, LAMBDA c : c.id \notin ids)

\* EditModal.handleSave, siblings.length
SiblingCount(cats, parentId, initialId) ==
  Cardinality({c \in Ids(cats) : ItemOf(cats, c).parentId = parentId /\ c # initialId})

\* the category screen is open on an empty tree
InitCat ==
  /\ now = 0
  /\ nextId = 1
  /\ store = [i \in {} |-> NoSession]
  /\ sessions = <<>>
  /\ timer = NoTimer
  /\ interruptedSession = NoSession
  /\ loaded = TRUE
  /\ elapsed = Null
  /\ runMs = Null
  /\ scn = Derailed
  /\ calls = <<>>
  /\ result = NoResult
  /\ aggIn = NoAggInput
  /\ aggOut = NotAggregated
  /\ viewIn = NoViewInput
  /\ viewOut = NotRendered
  /\ categories = <<>>
  /\ nextCatId = 1
  /\ catOps = 0

\* what no category handler changes
notCategoryVars == <<now, nextId, timer, interruptedSession, loaded, elapsed, runMs,
                     scn, calls, result, aggIn, aggOut, viewIn, viewOut>>

\* "New", then "Create" in the EditModal: handleSave without initial
CreateItem(type, parentId) ==
  /\ catOps < MaxCatOps
  /\ nextCatId <= MaxCategories
  /\ categories' = UpsertCategory(categories,
       Item(genId, type, parentId, SiblingCount(categories, parentId, NoId)))
  /\ nextCatId' = nextCatId + 1
  /\ catOps' = catOps + 1
  /\ UNCHANGED <<notCategoryVars, store, sessions>>

\* the parents the EditModal can save: the one the item has (none for a new
\* item), the root and the folders its select offers
Parents(cats, initialId) ==
  (IF initialId = NoId THEN {} ELSE {ItemOf(cats, initialId).parentId})
  \cup {NoId} \cup folders(cats, initialId)

\* the edit button of a rendered item, then "Save changes": handleSave with
\* initial
EditItem(id, type, parentId) ==
  /\ catOps < MaxCatOps
  /\ categories' = UpsertCategory(categories,
       Item(id, type, parentId, ItemOf(categories, id).order))
  /\ catOps' = catOps + 1
  /\ UNCHANGED <<notCategoryVars, store, sessions, nextCatId>>

\* handleMove(item, dir): dir is -1 for 'up' and 1 for 'down'
MoveItem(id, dir) ==
  /\ catOps < MaxCatOps
  /\ LET item == ItemOf(categories, id)
         siblings == getSortedChildren(categories, item.parentId)
         idx == CHOOSE i \in 1..Len(siblings) : siblings[i].id = id
         swapIdx == idx + dir
     IN /\ swapIdx >= 1 /\ swapIdx <= Len(siblings)
        /\ LET other == siblings[swapIdx]
           IN categories' =
                UpsertCategory(UpsertCategory(categories, [item EXCEPT !.order = other.order]),
                               [other EXCEPT !.order = item.order])
  /\ catOps' = catOps + 1
  /\ UNCHANGED <<notCategoryVars, store, sessions, nextCatId>>

\* db.deleteSessionsByTaskIds(taskIds) and DELETE_SESSIONS_BY_TASK_IDS
dbDeleteSessionsByTaskIds(st, taskIds) ==
  [id \in {i \in DOMAIN st : st[i].taskId \notin taskIds} |-> st[id]]
DeleteSessionsByTaskIds(list, taskIds) ==
  SelectSeq(list, LAMBDA s : s.taskId \notin taskIds)

\* the strategies the DeleteModal offers for an item
Strategies(cats, item) ==
  IF item.type = "folder"
  THEN (IF \E c \in Ids(cats) : ItemOf(cats, c).parentId = item.id
        THEN {"reparent", "delete-all"} ELSE {"delete-all"})
  ELSE {"keep-sessions", "delete-sessions"}

\* the delete button of a rendered item, then a strategy: handleDelete
DeleteItem(id, strategy) ==
  /\ catOps < MaxCatOps
  /\ LET deleteItem == ItemOf(categories, id)
         descendants == getAllDescendants(categories, id)
     IN /\ IF deleteItem.type = "folder"
           THEN IF strategy = "delete-all"
                THEN /\ store' = dbDeleteSessionsByTaskIds(store, descendants)
                     /\ sessions' = DeleteSessionsByTaskIds(sessions, descendants)
                     /\ categories' = DeleteCategories(categories, descendants \cup {id})
                ELSE /\ categories' = DeleteCategories(
                          [i \in 1..Len(categories) |->
                             IF categories[i].parentId = id
                             THEN [categories[i] EXCEPT !.parentId = deleteItem.parentId]
                             ELSE categories[i]], {id})
                     /\ UNCHANGED <<store, sessions>>
           ELSE /\ IF strategy = "delete-sessions"
                   THEN /\ store' = dbDeleteSessionsByTaskIds(store, {id})
                        /\ sessions' = DeleteSessionsByTaskIds(sessions, {id})
                   ELSE UNCHANGED <<store, sessions>>
                /\ categories' = DeleteCategories(categories, {id})
  /\ catOps' = catOps + 1
  /\ UNCHANGED <<notCategoryVars, nextCatId>>

\* a handler runs on what the screen offers: the buttons of a rendered item,
\* the options of the parent select, the strategies of the DeleteModal
NextCat ==
  \/ \E type \in {"folder", "task"}, parentId \in Parents(categories, NoId) :
       CreateItem(type, parentId)
  \/ \E id \in Rendered(categories, NoId) :
       \E type \in {"folder", "task"}, parentId \in Parents(categories, id) :
         EditItem(id, type, parentId)
  \/ \E id \in Rendered(categories, NoId), dir \in {0 - 1, 1} : MoveItem(id, dir)
  \/ \E id \in Rendered(categories, NoId) :
       \E strategy \in Strategies(categories, ItemOf(categories, id)) :
         DeleteItem(id, strategy)

SpecCat == InitCat /\ [][NextCat]_vars

\* ---------------------------------------------------------------- data
\* The timer commands together with the handlers that change the sessions
\* from outside the timer: the manual entry, the deletion of a task's sessions, the
\* import of a backup file and the deletion of all data.

\* the id of a session of a backup file: one this installation never generates
ImportedId == MaxSessions + 1

\* the `sessions` of the backup files: a file without sessions and a file
\* with one finished session
ImportFiles == {<<>>, <<Session(ImportedId, "A", <<Interval(0, Tick)>>)>>}

RECURSIVE importAllData(_, _)
\* db.importAllData: every session of the file is put, nothing is cleared
importAllData(st, file) ==
  IF file = <<>> THEN st
  ELSE importAllData(dbUpsertSession(st, Head(file)), Tail(file))

\* db.deleteAllData: objectStore('sessions').clear()
deleteAllData(st) == [i \in {} |-> NoSession]

\* handleImport: importAllData(text), then reloadAll()
HandleImport(file) ==
  /\ loaded
  /\ catOps < MaxDataOps
  /\ TotalIntervals(importAllData(store, file)) <= MaxIntervals
  /\ LET all == dbGetAllSessions(importAllData(store, file)) IN
       /\ store' = importAllData(store, file)
       /\ sessions' = all
       /\ interruptedSession' = findInterruptedSession(all)
  /\ scn' = Derailed
  /\ elapsed' = Null
  /\ UNCHANGED <<now, nextId, timer, loaded, runMs>>
  /\ UNCHANGED asyncVars
  /\ UNCHANGED analyticsVars
  /\ catOps' = catOps + 1
  /\ UNCHANGED <<categories, nextCatId>>

\* handleDeleteAll: deleteAllData(), then reloadAll()
HandleDeleteAll ==
  /\ loaded
  /\ catOps < MaxDataOps
  /\ LET all == dbGetAllSessions(deleteAllData(store)) IN
       /\ store' = deleteAllData(store)
       /\ sessions' = all
       /\ interruptedSession' = findInterruptedSession(all)
  /\ scn' = Derailed
  /\ elapsed' = Null
  /\ UNCHANGED <<now, nextId, timer, loaded, runMs>>
  /\ UNCHANGED asyncVars
  /\ UNCHANGED analyticsVars
  /\ catOps' = catOps + 1
  /\ UNCHANGED <<categories, nextCatId>>

\* handleSave of the ManualSessionModal, then upsertSession(session): one
\* minute anchored at the current minute by its start or by its end
ManualSession(taskId, anchorTime) ==
  /\ loaded
  /\ catOps < MaxDataOps
  /\ nextId <= MaxSessions
  /\ TotalIntervals(store) < MaxIntervals
  /\ LET ms == Tick
         anchor == now
         start == IF anchorTime = "start" THEN anchor ELSE anchor - ms
         end == start + ms
         session == Session(nextId, taskId, <<Interval(start, end)>>)
     IN /\ store' = dbUpsertSession(store, session)
        /\ sessions' = UpsertSession(sessions, session)
  /\ nextId' = nextId + 1
  /\ scn' = Derailed
  /\ elapsed' = Null
  /\ UNCHANGED <<now, timer, interruptedSession, loaded, runMs>>
  /\ UNCHANGED asyncVars
  /\ UNCHANGED analyticsVars
  /\ catOps' = catOps + 1
  /\ UNCHANGED <<categories, nextCatId>>

\* deleteSessionsByTaskIds(taskIds) of the context: what handleDelete calls
\* when a task is deleted together with its sessions
RemoveSessionsOfTask(taskId) ==
  /\ loaded
  /\ catOps < MaxDataOps
  /\ store' = dbDeleteSessionsByTaskIds(store, {taskId})
  /\ sessions' = DeleteSessionsByTaskIds(sessions, {taskId})
  /\ scn' = Derailed
  /\ elapsed' = Null
  /\ UNCHANGED <<now, nextId, timer, interruptedSession, loaded, runMs>>
  /\ UNCHANGED asyncVars
  /\ UNCHANGED analyticsVars
  /\ catOps' = catOps + 1
  /\ UNCHANGED <<categories, nextCatId>>

NextData ==
  \/ (now < MaxAsyncTicks * Tick /\ Advance)
  \/ Load
  \/ Crash
  \/ \E taskId \in TaskIds : StartTimer(taskId)
  \/ PauseTimer
  \/ (Len(timer.intervals) < MaxIntervals /\ ResumeTimer)
  \/ \E save \in BOOLEAN : StopTimer(save)
  \/ (Len(interruptedSession.intervals) < MaxIntervals /\ ResumeInterrupted)
  \/ CloseInterrupted
  \/ DismissInterrupted
  \/ \E file \in ImportFiles : HandleImport(file)
  \/ HandleDeleteAll
  \/ \E taskId \in TaskIds, anchorTime \in {"start", "end"} :
       ManualSession(taskId, anchorTime)
  \/ \E taskId \in TaskIds : RemoveSessionsOfTask(taskId)

SpecData == Init /\ [][NextData]_vars

\* ---------------------------------------------------------------- switch
\* The start button of the TimerView and the "Stop & switch" button of the
\* ConfirmSwitchModal, with the suspension points of the commands they await.

\* handleStart of the TimerView of task taskId: with a timer on another task
\* it only opens the ConfirmSwitchModal, otherwise it calls startTimer
HandleStart(taskId) ==
  /\ ~(timer # NoTimer /\ timer.taskId # taskId)
  /\ StartTimerCall(taskId)

\* handleSwitchConfirm, up to the await of stopTimer(true); the modal is open
\* for the task of the TimerView while a timer is active on another task
HandleSwitchConfirm(taskId) ==
  /\ loaded
  /\ calls = <<>>
  /\ timer # NoTimer
  /\ timer.taskId # taskId
  /\ nextId <= MaxSessions
  /\ TotalIntervals(store) < MaxIntervals
  /\ LET session == Session(timer.sessionId, timer.taskId,
                            CloseLastIfOpen(timer.intervals, now))
     IN calls' = <<Call("switchStop", "put", session, TRUE, NoTimer, FALSE)
                     @@ [pendingNewTaskId |-> taskId]>>
  /\ UNCHANGED <<now, nextId, store, sessions, timer, interruptedSession, loaded,
                 elapsed, runMs, scn, result>>
  /\ UNCHANGED analyticsVars
  /\ UNCHANGED categoryVars

\* startTimer is called although stopTimer(true) has thrown
SwitchStartsAnyway(ok) == TRUE

\* `await stopTimer(true)` throws when the write fails, and handleSwitchConfirm
\* ends there: startTimer is called iff the stop has completed
SwitchStarts(ok) == ok

\* The write of the stop of handleSwitchConfirm settles: stopTimer runs to its
\* end, and handleSwitchConfirm goes on to startTimer(pendingNewTaskId), up to
\* its await.
SwitchSettle(ok) ==
  /\ calls # <<>>
  /\ Head(calls).op = "switchStop"
  /\ LET c == Head(calls)
         sessionId == nextId
         session == Session(sessionId, c.pendingNewTaskId, <<Interval(now, Null)>>)
     IN /\ store' = IF ok THEN dbUpsertSession(store, c.session) ELSE store
        /\ IF Dispatched(ok)
           THEN /\ sessions' = UpsertSession(sessions, c.session)
                /\ timer' = NoTimer
           ELSE UNCHANGED <<sessions, timer>>
        /\ IF SwitchStarts(ok)
           THEN /\ calls' = <<Call("switchStart", "put", session, TRUE,
                                   NewTimer(sessionId, c.pendingNewTaskId, now), FALSE)
                                @@ [stopped |-> c.session.id]>>
                /\ nextId' = nextId + 1
                /\ UNCHANGED result
           ELSE /\ calls' = <<>>
                /\ result' = Rejected
                /\ UNCHANGED nextId
  /\ UNCHANGED <<now, interruptedSession, loaded, elapsed, runMs, scn>>
  /\ UNCHANGED analyticsVars
  /\ UNCHANGED categoryVars

NextSwitch ==
  \/ (now < MaxAsyncTicks * Tick /\ Advance)
  \/ Load
  \/ (calls = <<>> /\ Crash)
  \/ (calls = <<>> /\ \E taskId \in TaskIds : HandleStart(taskId))
  \/ (calls = <<>> /\ PauseTimerCall)
  \/ (calls = <<>> /\ ResumeTimerCall)
  \/ (calls = <<>> /\ \E save \in BOOLEAN : StopTimerCall(save))
  \/ (calls = <<>> /\ ResumeInterruptedCall)
  \/ (calls = <<>> /\ CloseInterruptedCall)
  \/ (calls = <<>> /\ DismissInterrupted)
  \/ \E taskId \in TaskIds : HandleSwitchConfirm(taskId)
  \/ \E ok \in BOOLEAN : SwitchSettle(ok)
  \/ (calls # <<>> /\ Head(calls).op # "switchStop" /\ \E ok \in BOOLEAN : DbSettle(ok))

SpecSwitch == Init /\ [][NextSwitch]_vars

\* ---------------------------------------------------------------- ancestor walk
\* The while loop of computeEffectiveDisplay for one task, one iteration per
\* step, on category lists that need not be trees: a parentId may name an
\* item further down or no item at all.

\* an id that no item has
MissingId == "X"

\* state.categories as an import can leave them: the task A and the folders F
\* and G, each at the root, in a folder other than itself, or with a parentId
\* that names no item
WalkCategoryLists ==
  {<<Category("A", "task", pa), Category("F", "folder", pf), Category("G", "folder", pg)>> :
     pa \in {NoId, "F", "G", MissingId},
     pf \in {NoId, "G", MissingId},
     pg \in {NoId, "F", MissingId}}

\* the locals of the loop body: `task`, `cur`, `chosen`, and whether the
\* loop has been left
Walk(task, cur, chosen, done) ==
  [task |-> task, cur |-> cur, chosen |-> chosen, done |-> done]

\* let cur = task.id; let chosen = null
InitWalk ==
  /\ now = 0
  /\ nextId = 1
  /\ store = [i \in {} |-> NoSession]
  /\ sessions = <<>>
  /\ timer = NoTimer
  /\ interruptedSession = NoSession
  /\ loaded = TRUE
  /\ elapsed = Null
  /\ runMs = Null
  /\ scn = Derailed
  /\ calls = <<>>
  /\ result = NoResult
  /\ aggIn = NoAggInput
  /\ aggOut = NotAggregated
  /\ \E c \in WalkCategoryLists, sel \in SUBSET {"A", "F", "G"} :
       viewIn = [categories |-> c, selectedIds |-> sel, excludeZeroDays |-> FALSE]
  /\ viewOut = Walk("A", "A", NoId, FALSE)
  /\ categories = <<>>
  /\ nextCatId = 1
  /\ catOps = 0

\* one iteration of `while (cur !== null)`: break with chosen = cur when cur
\* is selected, else go on to the parentId of the item found (null if none)
WalkStep ==
  /\ ~viewOut.done
  /\ viewOut.cur # NoId
  /\ viewOut' =
       IF viewOut.cur \in viewIn.selectedIds
       THEN [viewOut EXCEPT !.chosen = viewOut.cur, !.done = TRUE]
       ELSE [viewOut EXCEPT !.cur = Find(viewIn.categories, viewOut.cur).parentId]
  /\ UNCHANGED <<timerVars, categoryVars, aggIn, aggOut, viewIn>>

\* the loop condition fails: cur === null
WalkEnd ==
  /\ ~viewOut.done
  /\ viewOut.cur = NoId
  /\ viewOut' = [viewOut EXCEPT !.done = TRUE]
  /\ UNCHANGED <<timerVars, categoryVars, aggIn, aggOut, viewIn>>

NextWalk ==
  \/ WalkStep
  \/ WalkEnd

\* the loop keeps running while it can
SpecWalk == InitWalk /\ [][NextWalk]_vars /\ WF_vars(NextWalk)

\* ---------------------------------------------------------------- claims
\* the sum of (end - start) over the closed intervals of ivs
SumClosed(ivs) == SumIntervals(SelectSeq(ivs, LAMBDA iv : iv.end # Null), 0)

\* the number of intervals of ivs with end = null
OpenIn(ivs) == Cardinality({i \in 1..Len(ivs) : ivs[i].end = Null})

\* the ids of the persisted sessions that have an interval with end = null
OpenSessions == {id \in DOMAIN store : HasOpen(store[id])}

\* C1: the scenario start at 0, pause at 60000, resume at 120000, stop and
\* save at 180000 leaves one persisted session whose intervals are exactly
\* {0,60000} and {120000,180000}, 120000 ms in total, and an idle timer.
C1_Scenario ==
  scn = Len(Scenario) =>
    /\ DOMAIN store = {1}
    /\ store[1].intervals = <<Interval(0, 60000), Interval(120000, 180000)>>
    /\ SumIntervals(store[1].intervals, now) = 120000
    /\ timer = NoTimer

\* C2: no time is double-counted or lost.  In every state the accumulator
\* elapsedMs of the active timer equals the sum of (end - start) over the
\* closed intervals of its persisted session, and a stop with save of a timer
\* created by start persists a session whose total duration is the time the
\* timer spent running.
C2_Accumulator ==
  timer # NoTimer =>
    /\ timer.sessionId \in DOMAIN store
    /\ timer.elapsedMs = SumClosed(store[timer.sessionId].intervals)

C2_NoTimeLost ==
  [][/\ C2_Accumulator'
     /\ (StopTimer(TRUE) /\ timer # NoTimer /\ runMs # Null) =>
          /\ timer.sessionId \in DOMAIN store'
          /\ SumIntervals(store'[timer.sessionId].intervals, now) = runMs]_vars

\* C2 witness: a started timer was paused, resumed after a gap and stopped
\* with save; the persisted total is the time spent running, without the gap.
C2_Witness ==
  /\ timer = NoTimer
  /\ runMs = Tick
  /\ \E id \in DOMAIN store :
       /\ Len(store[id].intervals) = 2
       /\ ~HasOpen(store[id])
       /\ store[id].intervals[1].end < store[id].intervals[2].start
       /\ SumIntervals(store[id].intervals, now) = runMs

\* C3 (as stated): at most one interval across all persisted sessions has
\* end = null.
C3_AtMostOneOpen ==
  /\ Cardinality(OpenSessions) <= 1
  /\ \A id \in DOMAIN store : OpenIn(store[id].intervals) <= 1

\* C3 (amended): every persisted session has at most one interval with
\* end = null, and that interval is the last one of the session.
C3_OneOpenPerSession ==
  \A id \in DOMAIN store :
    \A i \in 1..Len(store[id].intervals) :
      store[id].intervals[i].end = Null => i = Len(store[id].intervals)

\* C3 witness: session 1 was left open by an abnormal termination; after the
\* restart, with the prompt for it still pending, a timer was started from
\* idle, so two sessions have an open interval each, each as its last one.
C3_Witness ==
  /\ loaded
  /\ interruptedSession = Session(1, "A", <<Interval(0, Null)>>)
  /\ timer = NewTimer(2, "B", Tick)
  /\ DOMAIN store = {1, 2}
  /\ store[1] = interruptedSession
  /\ store[2] = Session(2, "B", <<Interval(Tick, Null)>>)

\* C4: start(taskId) issued from idle at time now persists a new session for
\* taskId with the single interval {now, null} and leaves the timer running on
\* it with elapsedMs = 0 and intervalStart = now.
C4_StartFromIdle ==
  [][\A taskId \in TaskIds :
       (StartTimer(taskId) /\ timer = NoTimer) =>
         /\ nextId \notin DOMAIN store
         /\ DOMAIN store' = DOMAIN store \cup {nextId}
         /\ \A id \in DOMAIN store : store'[id] = store[id]
         /\ store'[nextId] = Session(nextId, taskId, <<Interval(now, Null)>>)
         /\ sessions' = Append(sessions, store'[nextId])
         /\ timer'.sessionId = nextId
         /\ timer'.taskId = taskId
         /\ timer'.status = "running"
         /\ timer'.intervals = <<Interval(now, Null)>>
         /\ timer'.elapsedMs = 0
         /\ timer'.intervalStart = now]_vars

\* C4 witness: the first start, made from idle at a later time on task B.
C4_Witness ==
  /\ now = Tick
  /\ nextId = 2
  /\ timer = NewTimer(1, "B", Tick)
  /\ store[1] = Session(1, "B", <<Interval(Tick, Null)>>)
  /\ sessions = <<store[1]>>

\* C5: a start issued while a timer is running or paused is not accepted and
\* changes neither the active timer nor the stored sessions.
C5_StartRejectedWhenActive ==
  [][\A taskId \in TaskIds :
       (StartTimer(taskId) /\ timer # NoTimer) =>
         /\ timer' = timer
         /\ store' = store
         /\ sessions' = sessions]_vars

\* C6: pause() issued from running at time now closes the last interval with
\* end = now, adds (now - intervalStart) to elapsedMs, sets intervalStart to
\* null and the status to paused, and persists the session with the closed
\* interval, for every value of intervalStart, including 0.
C6_PauseFromRunning ==
  [][(PauseTimer /\ timer.status = "running") =>
       /\ timer'.status = "paused"
       /\ timer'.intervalStart = Null
       /\ timer'.elapsedMs = timer.elapsedMs + (now - timer.intervalStart)
       /\ timer'.intervals = CloseLast(timer.intervals, now)
       /\ timer.sessionId \in DOMAIN store'
       /\ store'[timer.sessionId].intervals = CloseLast(timer.intervals, now)]_vars

\* C7: resume() issued from paused at time now appends exactly one open
\* interval {now, null}, sets intervalStart = now and the status to running,
\* leaves elapsedMs and the earlier intervals unchanged, and persists the
\* session.
C7_ResumeFromPaused ==
  [][(ResumeTimer /\ timer.status = "paused") =>
       /\ timer'.intervals = Append(timer.intervals, Interval(now, Null))
       /\ timer'.intervalStart = now
       /\ timer'.status = "running"
       /\ timer'.elapsedMs = timer.elapsedMs
       /\ timer'.sessionId = timer.sessionId
       /\ timer'.taskId = timer.taskId
       /\ DOMAIN store' = DOMAIN store
       /\ store'[timer.sessionId] =
            Session(timer.sessionId, timer.taskId, timer'.intervals)
       /\ \A id \in DOMAIN store \ {timer.sessionId} : store'[id] = store[id]
       /\ \E i \in 1..Len(sessions') : sessions'[i] = store'[timer.sessionId]]_vars

\* C7 witness: a started timer resumed after a pause and a gap, with the time
\* of its first interval on the accumulator.
C7_Witness ==
  /\ timer.status = "running"
  /\ runMs = Tick
  /\ timer.elapsedMs = Tick
  /\ timer.intervalStart = now
  /\ timer.intervals = <<Interval(Tick, 2 * Tick), Interval(3 * Tick, Null)>>
  /\ store[timer.sessionId].intervals = timer.intervals

\* C8: stop(save = true) issued from running or paused at time now closes a
\* trailing open interval with end = now (the intervals of a paused timer stay
\* as they are), persists the session without any open interval, keeps it in
\* storage and resets the timer to idle.
C8_StopSave ==
  [][(StopTimer(TRUE) /\ timer # NoTimer) =>
       /\ timer.sessionId \in DOMAIN store'
       /\ store'[timer.sessionId].id = timer.sessionId
       /\ store'[timer.sessionId].taskId = timer.taskId
       /\ store'[timer.sessionId].intervals =
            (IF timer.status = "running"
             THEN CloseLast(timer.intervals, now) ELSE timer.intervals)
       /\ ~HasOpen(store'[timer.sessionId])
       /\ \E i \in 1..Len(sessions') : sessions'[i] = store'[timer.sessionId]
       /\ timer' = NoTimer]_vars

\* C8 witness: a started timer that had been paused and resumed was stopped
\* with save while running; both of its intervals are persisted closed.
C8_Witness ==
  /\ timer = NoTimer
  /\ runMs = 2 * Tick
  /\ now = 3 * Tick
  /\ 1 \in DOMAIN store
  /\ store[1].intervals = <<Interval(Tick, 2 * Tick), Interval(2 * Tick, 3 * Tick)>>

\* C9: stop(save = false) issued from running or paused deletes the timer's
\* session from storage and from the in-memory list, leaves every other
\* session unchanged and resets the timer to idle.
C9_StopCancel ==
  [][(StopTimer(FALSE) /\ timer # NoTimer) =>
       /\ DOMAIN store' = DOMAIN store \ {timer.sessionId}
       /\ \A id \in DOMAIN store' : store'[id] = store[id]
       /\ sessions' = SelectSeq(sessions, LAMBDA s : s.id # timer.sessionId)
       /\ \A i \in 1..Len(sessions') : sessions'[i].id # timer.sessionId
       /\ timer' = NoTimer]_vars

\* C9 witness: the second session has been cancelled and left no record, the
\* first one is still stored.
C9_Witness ==
  /\ loaded
  /\ timer = NoTimer
  /\ nextId = 3
  /\ DOMAIN store = {1}
  /\ sessions = <<store[1]>>

\* C10: elapsed(now) returns elapsedMs + (now - intervalStart) when the timer
\* is running, for every intervalStart including 0, and elapsedMs otherwise
\* (0 when idle), and changes neither the timer, the sessions nor storage.
C10_ElapsedQuery ==
  [][GetElapsedMs =>
       /\ elapsed' = (IF timer.status = "running"
                      THEN timer.elapsedMs + (now - timer.intervalStart)
                      ELSE timer.elapsedMs)
       /\ UNCHANGED <<timer, sessions, store, interruptedSession>>]_vars

\* C11: a timer command issued from a state that does not permit it (pause
\* while idle or paused, resume while idle or running, stop while idle) writes
\* nothing to storage and leaves the active timer and the session list
\* unchanged.
C11_RejectedNoMutation ==
  [][/\ (PauseTimer /\ timer.status # "running") =>
          UNCHANGED <<store, sessions, timer, interruptedSession, nextId>>
     /\ (ResumeTimer /\ timer.status # "paused") =>
          UNCHANGED <<store, sessions, timer, interruptedSession, nextId>>
     /\ ((\E save \in BOOLEAN : StopTimer(save)) /\ timer.status = "idle") =>
          UNCHANGED <<store, sessions, timer, interruptedSession, nextId>>]_vars

\* C11 witness: in the scenario a resume was issued at 120000 while the timer
\* started at 0 was still running; the timer and its stored session are as the
\* start left them.
C11_Witness ==
  /\ scn = 3
  /\ now = 2 * Tick
  /\ timer = NewTimer(1, "A", 0)
  /\ DOMAIN store = {1}
  /\ store[1] = Session(1, "A", <<Interval(0, Null)>>)
  /\ sessions = <<store[1]>>

\* C12: a timer command rejected because the current state does not permit
\* it is observable as a failure: the promise of a rejected pause, resume or
\* stop does not settle the way the promise of an accepted one does.
C12_RejectionObservable ==
  [][/\ (PauseTimerCall /\ timer.status # "running") => result' # Fulfilled
     /\ (ResumeTimerCall /\ timer.status # "paused") => result' # Fulfilled
     /\ ((\E save \in BOOLEAN : StopTimerCall(save)) /\ timer.status = "idle") =>
          result' # Fulfilled]_vars

\* C13: when the write of start, pause, resume, stop, recovery Resume or
\* recovery Close throws, the active timer, the session list, the prompt and
\* the store are as before the command, and the command's promise rejects.
C13_FailClosed ==
  [][DbSettle(FALSE) =>
       /\ UNCHANGED <<timer, sessions, interruptedSession, store>>
       /\ result' = Rejected]_vars

\* C13 witness: after a restart with session 1 left open, the write of a
\* recovery action threw; the prompt is still pending, no timer was adopted
\* and the session is stored as it was.
C13_Witness ==
  /\ loaded
  /\ calls = <<>>
  /\ result = Rejected
  /\ nextId = 2
  /\ timer = NoTimer
  /\ interruptedSession = Session(1, "A", <<Interval(0, Null)>>)
  /\ DOMAIN store = {1}
  /\ store[1] = interruptedSession
  /\ sessions = <<interruptedSession>>

\* C14: commands invoked while the write of an earlier command is in flight
\* are accepted only if consistent with the current state.  When the write of
\* a start invoked during another command settles while a timer is active on a
\* session with an open interval, the two sessions do not both have an open
\* interval afterwards; and when the write of a pause invoked during another
\* command settles after its session has been cancelled, the session is not
\* put back into storage and the timer stays idle.
C14_ConcurrentCommands ==
  [][DbSettle(TRUE) =>
       LET c == Head(calls) IN
         /\ (/\ c.op = "start"
             /\ c.behind > 0
             /\ timer # NoTimer
             /\ timer.sessionId \in DOMAIN store
             /\ HasOpen(store[timer.sessionId])) =>
               ~(HasOpen(store'[timer.sessionId]) /\ HasOpen(store'[c.session.id]))
         /\ (/\ c.op = "pause"
             /\ c.behind > 0
             /\ c.session.id \notin DOMAIN store) =>
               (c.session.id \notin DOMAIN store' /\ timer' = NoTimer)]_vars

\* the start times of the intervals of session s with end = null
OpenStarts(s) ==
  {s.intervals[i].start : i \in {j \in 1..Len(s.intervals) : s.intervals[j].end = Null}}

\* C15: the detection on load yields null when no persisted session has an
\* interval with end = null; otherwise it yields a persisted session that has
\* one, and no other persisted session has an open interval that started
\* later.
C15_DetectInterrupted ==
  [][Load =>
       IF OpenSessions = {}
       THEN interruptedSession' = NoSession
       ELSE \E id \in OpenSessions :
              /\ interruptedSession' = store[id]
              /\ \E t \in OpenStarts(store[id]) :
                   \A other \in OpenSessions :
                     \A u \in OpenStarts(store[other]) : u <= t]_vars

\* C15 witness: two sessions were left open, the first started at 0 and the
\* second one minute later; after the restart the prompt is for the second.
C15_Witness ==
  /\ loaded
  /\ timer = NoTimer
  /\ DOMAIN store = {1, 2}
  /\ store[1] = Session(1, "A", <<Interval(0, Null)>>)
  /\ store[2] = Session(2, "B", <<Interval(Tick, Null)>>)
  /\ sessions = <<store[1], store[2]>>
  /\ interruptedSession = store[2]

RECURSIVE ClosedDuration(_)
\* the sum of the durations of the closed intervals of ivs
ClosedDuration(ivs) ==
  IF ivs = <<>> THEN 0
  ELSE (IF Head(ivs).end = Null THEN 0 ELSE Head(ivs).end - Head(ivs).start)
       + ClosedDuration(Tail(ivs))

\* ivs with end = at on every interval that has end = null
ClosedAt(ivs, at) ==
  [i \in 1..Len(ivs) |->
     [start |-> ivs[i].start, end |-> IF ivs[i].end = Null THEN at ELSE ivs[i].end]]

C17_RecoveryClose ==
  [][CloseInterrupted =>
       LET s == interruptedSession IN
         /\ HasOpen(s)
         /\ DOMAIN store' = DOMAIN store \cup {s.id}
         /\ store'[s.id] = [id |-> s.id, taskId |-> s.taskId,
                            intervals |-> ClosedAt(s.intervals, now)]
         /\ ~HasOpen(store'[s.id])
         /\ \A i \in 1..Len(s.intervals) :
              s.intervals[i].end # Null => store'[s.id].intervals[i] = s.intervals[i]
         /\ \A id \in DOMAIN store \ {s.id} : store'[id] = store[id]
         /\ \E i \in 1..Len(sessions') : sessions'[i] = store'[s.id]
         /\ timer' = timer
         /\ interruptedSession' = NoSession]_vars

\* C17 witness: session 1 was left open at 0; after the restart a timer was
\* started on session 2, and then the prompt for session 1 was answered with
\* Close at two minutes: session 1 is {0, 120000} and the timer still runs on
\* session 2.
C17_Witness ==
  /\ loaded
  /\ interruptedSession = NoSession
  /\ now = 2 * Tick
  /\ DOMAIN store = {1, 2}
  /\ store[1] = Session(1, "A", <<Interval(0, 2 * Tick)>>)
  /\ store[2] = Session(2, "B", <<Interval(Tick, Null)>>)
  /\ timer = NewTimer(2, "B", Tick)

\* C18: recovery Dismiss only clears the prompt: storage, the session list
\* and the active timer are unchanged, and the interrupted session is still
\* stored with its open interval.
C18_RecoveryDismiss ==
  [][DismissInterrupted =>
       /\ UNCHANGED <<store, sessions, timer, nextId>>
       /\ interruptedSession' = NoSession
       /\ interruptedSession.id \in DOMAIN store'
       /\ store'[interruptedSession.id] = interruptedSession
       /\ HasOpen(store'[interruptedSession.id])]_vars

\* C18 witness: session 1 was left open at 0 and its prompt was dismissed
\* after the restart: no prompt, no timer, and the session is still open.
C18_Witness ==
  /\ loaded
  /\ interruptedSession = NoSession
  /\ timer = NoTimer
  /\ nextId = 2
  /\ DOMAIN store = {1}
  /\ store[1] = Session(1, "A", <<Interval(0, Null)>>)
  /\ sessions = <<store[1]>>

\* byTask[t] of a day bucket, 0 for a task without a key
ByTask(day, t) == IF t \in DOMAIN day.byTask THEN day.byTask[t] ELSE 0

RECURSIVE SumByTask(_, _)
\* the sum of the byTask values of a day bucket over the tasks in S
SumByTask(day, S) ==
  IF S = {} THEN 0
  ELSE LET t == CHOOSE x \in S : TRUE IN ByTask(day, t) + SumByTask(day, S \ {t})

\* C19: aggregate(sessions, startDate, endDate) returns exactly one bucket per
\* calendar day of the inclusive range, in chronological order and without
\* duplicates, days without activity included, and none when endDate is
\* before startDate.
C19_OneBucketPerDay ==
  aggOut.done =>
    LET n == IF aggIn.dateEnd < aggIn.dateStart THEN 0
             ELSE aggIn.dateEnd - aggIn.dateStart + 1
    IN /\ Len(aggOut.days) = n
       /\ \A i \in 1..n : aggOut.days[i].date = aggIn.dateStart + i - 1

\* C20: for every day bucket and task, byTask[task] is the sum over the closed
\* intervals of the task's sessions of their overlap with [the day's local
\* midnight, the next local midnight), and totalMs is the sum of the byTask
\* values.
C20_BucketContents ==
  aggOut.done =>
    \A i \in 1..Len(aggOut.days) :
      LET day == aggOut.days[i]
          midnight == DayStart(aggIn.zone, day.date)
          nextMidnight == DayStart(aggIn.zone, day.date + 1)
      IN /\ \A t \in TaskIds :
              ByTask(day, t) = SessionsMs(aggIn.sessions, midnight, nextMidnight, {t})
         /\ day.totalMs = SumByTask(day, TaskIds)

RECURSIVE SumTotalMs(_)
\* the sum of totalMs over a sequence of day buckets
SumTotalMs(days) ==
  IF days = <<>> THEN 0 ELSE Head(days).totalMs + SumTotalMs(Tail(days))

RECURSIVE ClosedDurations(_)
\* the sum of the durations of the closed intervals of a list of sessions
ClosedDurations(list) ==
  IF list = <<>> THEN 0
  ELSE ClosedDuration(Head(list).intervals) + ClosedDurations(Tail(list))

\* the closed intervals of the sessions given to the aggregator
ClosedIntervalsIn(list) ==
  {list[i].intervals[j] : i \in 1..Len(list), j \in {1}} \ {Interval(0, Null)}

\* C21: an interval that spans several calendar days adds to each day it
\* touches, and to no other day, and when the range covers the interval the
\* amounts of the days sum exactly to the interval's duration.
C21_SplitAcrossDays ==
  (aggOut.done /\ aggIn.dateStart = 0 /\ aggIn.dateEnd = MaxDay) =>
    /\ SumTotalMs(aggOut.days) = ClosedDurations(aggIn.sessions)
    /\ \A d \in Days :
         (\E iv \in ClosedIntervalsIn(aggIn.sessions) :
            iv.start < DayStart(aggIn.zone, d + 1) /\ iv.end > DayStart(aggIn.zone, d))
         <=> (\E i \in 1..Len(aggOut.days) :
                aggOut.days[i].date = d /\ aggOut.days[i].totalMs > 0)

RECURSIVE IntervalMsUntil(_, _, _, _)
\* the overlap of the intervals ivs with [dayStart, dayEnd], an open interval
\* taken to end at the instant at
IntervalMsUntil(ivs, dayStart, dayEnd, at) ==
  IF ivs = <<>> THEN 0
  ELSE LET iv == Head(ivs)
           e == IF iv.end = Null THEN at ELSE iv.end
       IN Max(0, Min(e, dayEnd) - Max(iv.start, dayStart))
          + IntervalMsUntil(Tail(ivs), dayStart, dayEnd, at)

RECURSIVE SessionsMsUntil(_, _, _, _, _)
\* the same over the sessions of task t
SessionsMsUntil(list, dayStart, dayEnd, t, at) ==
  IF list = <<>> THEN 0
  ELSE (IF Head(list).taskId = t
        THEN IntervalMsUntil(Head(list).intervals, dayStart, dayEnd, at) ELSE 0)
       + SessionsMsUntil(Tail(list), dayStart, dayEnd, t, at)

\* C22: an interval that is still open is part of the day aggregation, as an
\* interval that ends now: every bucket holds, for every task, the overlap of
\* the day with the task's closed intervals and with its open interval up to
\* now.
C22_OpenIntervalCounted ==
  aggOut.done =>
    \A i \in 1..Len(aggOut.days) :
      LET day == aggOut.days[i]
          b == dayBounds(aggIn.zone, day.date)
      IN \A t \in TaskIds :
           ByTask(day, t) = SessionsMsUntil(aggIn.sessions, b[1], b[2], t, now)

\* the ids of the task nodes of a list of categories
TaskNodes(cats) ==
  {cats[i].id : i \in {j \in 1..Len(cats) : cats[j].type = "task"}}

\* the parentId of the item id, null when there is no such item
ParentIdOf(cats, id) ==
  IF \E i \in 1..Len(cats) : cats[i].id = id
  THEN cats[CHOOSE i \in 1..Len(cats) : cats[i].id = id].parentId
  ELSE NoId

RECURSIVE Chain(_, _)
\* the chain id, parent, grandparent, ... of an id
Chain(cats, id) ==
  IF id = NoId THEN <<>>
  ELSE <<id>> \o Chain(cats, ParentIdOf(cats, id))

\* the positions of the chain of id that hold a selected id
SelectedOnChain(cats, selectedIds, id) ==
  {i \in 1..Len(Chain(cats, id)) : Chain(cats, id)[i] \in selectedIds}

\* the task nodes none of whose ancestors-or-self is selected
Hidden(cats, selectedIds) ==
  {t \in TaskNodes(cats) : SelectedOnChain(cats, selectedIds, t) = {}}

\* C23: the display map sends every task node that has a selected id on its
\* chain task, parent, grandparent, ... to the first selected id of that
\* chain, the task itself first; every value is in selectedIds and is the
\* task or an ancestor of it, and only task nodes are keys.
C23_ClosestSelected ==
  viewOut.stage >= 1 =>
    /\ DOMAIN viewOut.effectiveMap \subseteq TaskNodes(viewIn.categories)
    /\ \A t \in TaskNodes(viewIn.categories) :
         LET chain == Chain(viewIn.categories, t)
             hits == SelectedOnChain(viewIn.categories, viewIn.selectedIds, t)
         IN hits # {} =>
              /\ t \in DOMAIN viewOut.effectiveMap
              /\ viewOut.effectiveMap[t] \in viewIn.selectedIds
              /\ \E i \in hits :
                   /\ viewOut.effectiveMap[t] = chain[i]
                   /\ \A j \in hits : i <= j

\* a task below two selected folders has been mapped to the nearer one
C23_Witness ==
  /\ viewOut.stage >= 1
  /\ \E t \in DOMAIN viewOut.effectiveMap :
       /\ viewOut.effectiveMap[t] # t
       /\ Cardinality(SelectedOnChain(viewIn.categories, viewIn.selectedIds, t)) >= 2
       /\ viewOut.effectiveMap[t] = ParentIdOf(viewIn.categories, t)

\* C24: a task none of whose ancestors-or-self is selected has no entry in
\* the display map, and its time is in no bucket and in no total of the
\* merged day data.
C24_UnselectedHidden ==
  viewOut.stage >= 2 =>
    LET hidden == Hidden(viewIn.categories, viewIn.selectedIds)
    IN /\ hidden \cap DOMAIN viewOut.effectiveMap = {}
       /\ \A i \in 1..Len(viewOut.days) :
            LET raw == aggOut.days[i]
                merged == viewOut.days[i]
                rest == raw.totalMs - SumByTask(raw, hidden)
            IN /\ hidden \cap DOMAIN merged.byTask = {}
               /\ merged.totalMs <= rest
               /\ SumByTask(merged, DOMAIN merged.byTask) <= rest

\* a day with time of a hidden task and of a shown task has been merged
C24_Witness ==
  /\ viewOut.stage >= 2
  /\ \E i \in 1..Len(viewOut.days) :
       /\ SumByTask(aggOut.days[i], Hidden(viewIn.categories, viewIn.selectedIds)) > 0
       /\ viewOut.days[i].totalMs > 0

\* the task ids of the day data that no item of the categories has
Orphans(cats, day) ==
  {t \in DOMAIN day.byTask : \A i \in 1..Len(cats) : cats[i].id # t}

\* C25: sessions whose taskId names no existing node never make the merge
\* fail: every merged day is there, the time of the orphaned sessions is in
\* no bucket and not in the total, and the time of the tasks that have a
\* display id is all there.
C25_OrphansExcluded ==
  viewOut.stage >= 2 =>
    /\ Len(viewOut.days) = Len(aggOut.days)
    /\ \A i \in 1..Len(viewOut.days) :
         LET raw == aggOut.days[i]
             merged == viewOut.days[i]
             orphans == Orphans(viewIn.categories, raw)
             map == viewOut.effectiveMap
         IN /\ orphans \cap DOMAIN map = {}
            /\ merged.date = raw.date
            /\ merged.totalMs = SumByTask(raw, DOMAIN map)
            /\ merged.totalMs <= raw.totalMs - SumByTask(raw, orphans)
            /\ \A d \in NodeIds :
                 ByTask(merged, d) = SumByTask(raw, {t \in DOMAIN map : map[t] = d})

\* a day with time of an orphaned session and of a shown task has been merged
C25_Witness ==
  /\ viewOut.stage >= 2
  /\ \E i \in 1..Len(viewOut.days) :
       /\ SumByTask(aggOut.days[i], Orphans(viewIn.categories, aggOut.days[i])) > 0
       /\ viewOut.days[i].totalMs > 0
       /\ Orphans(viewIn.categories, aggOut.days[i]) \cap viewIn.selectedIds # {}

\* two quotients are the same number
SameNumber(a, b) == a.num * b.den = b.num * a.den

\* the sum of two quotients
AddQuotients(a, b) ==
  IF a.den = b.den THEN [num |-> a.num + b.num, den |-> a.den]
  ELSE [num |-> a.num * b.den + b.num * a.den, den |-> a.den * b.den]

RECURSIVE SumQuotients(_, _)
\* the sum of the quotients f[k] over the keys k in S
SumQuotients(f, S) ==
  IF S = {} THEN Zero
  ELSE LET k == CHOOSE x \in S : TRUE
       IN AddQuotients(f[k], SumQuotients(f, S \ {k}))

\* the positions of the merged days that count as active
ActiveAt(days, excludeZeroDays) ==
  {i \in 1..Len(days) : ~excludeZeroDays \/ days[i].totalMs > 0}

RECURSIVE SumTotalAt(_, _)
\* the sum of totalMs over the days at the positions in I
SumTotalAt(days, I) ==
  IF I = {} THEN 0
  ELSE LET i == CHOOSE x \in I : TRUE
       IN days[i].totalMs + SumTotalAt(days, I \ {i})

RECURSIVE SumTaskAt(_, _, _)
\* the sum of byTask[k] over the days at the positions in I
SumTaskAt(days, I, k) ==
  IF I = {} THEN 0
  ELSE LET i == CHOOSE x \in I : TRUE
       IN ByTask(days[i], k) + SumTaskAt(days, I \ {i}, k)

\* C26: the average per day is the total over all days of the merged day
\* data divided by the number of active days: all days of the range, or only
\* the days with totalMs > 0 when zero days are excluded; it is 0 when there is
\* no active day.
C26_AveragePerDay ==
  viewOut.stage >= 3 =>
    LET days == viewOut.days
        active == ActiveAt(days, viewIn.excludeZeroDays)
        n == Cardinality(active)
    IN IF n = 0 THEN viewOut.avgPerDayMs.num = 0
       ELSE SameNumber(viewOut.avgPerDayMs,
                       [num |-> SumTotalAt(days, 1..Len(days)), den |-> n])

\* an average over fewer days than the range has, zero days being excluded
C26_Witness ==
  /\ viewOut.stage >= 3
  /\ viewIn.excludeZeroDays
  /\ Len(viewOut.days) = MaxViewDay + 1
  /\ Cardinality(ActiveAt(viewOut.days, TRUE)) = 2
  /\ viewOut.avgPerDayMs.num > 0

\* C27: the average of a display id is the sum of its time over all days
\* divided by the denominator of the average per day; the averages of all
\* display ids sum to the average per day; all are 0 when there is no active
\* day.
C27_AveragePerTask ==
  viewOut.stage >= 4 =>
    LET days == viewOut.days
        n == Cardinality(ActiveAt(days, viewIn.excludeZeroDays))
        ids == {viewOut.effectiveMap[t] : t \in DOMAIN viewOut.effectiveMap}
    IN /\ DOMAIN viewOut.taskAvg = ids
       /\ \A id \in ids :
            IF n = 0 THEN viewOut.taskAvg[id].num = 0
            ELSE SameNumber(viewOut.taskAvg[id],
                            [num |-> SumTaskAt(days, 1..Len(days), id), den |-> n])
       /\ SameNumber(SumQuotients(viewOut.taskAvg, ids), viewOut.avgPerDayMs)

\* two display ids have an average over fewer days than the range has
C27_Witness ==
  /\ viewOut.stage >= 4
  /\ viewIn.excludeZeroDays
  /\ Cardinality(ActiveAt(viewOut.days, TRUE)) \in 1..MaxViewDay
  /\ Len(viewOut.days) = MaxViewDay + 1
  /\ \E a, b \in DOMAIN viewOut.taskAvg :
       a # b /\ viewOut.taskAvg[a].num > 0 /\ viewOut.taskAvg[b].num > 0

\* the positions of the merged days that are counted for weekday w
DowAt(days, excludeZeroDays, w) ==
  {i \in ActiveAt(days, excludeZeroDays) : (days[i].date + FirstWeekday) % 7 = w}

\* C28: for every weekday 0 = Sunday .. 6 = Saturday, the day-of-week average
\* is the sum of totalMs over the included days of that weekday divided by
\* their number, and the value of every task is its sum over those days
\* divided by the same number; a weekday without included day has average 0.
C28_DayOfWeekAverages ==
  viewOut.stage >= 5 =>
    /\ DOMAIN viewOut.dowData = 0..6
    /\ \A w \in 0..6 :
         LET days == viewOut.days
             at == DowAt(days, viewIn.excludeZeroDays, w)
             c == Cardinality(at)
             avg == viewOut.dowData[w]
         IN IF c = 0
            THEN avg.totalAvg.num = 0 /\ DOMAIN avg.byTaskAvg = {}
            ELSE /\ SameNumber(avg.totalAvg, [num |-> SumTotalAt(days, at), den |-> c])
                 /\ \A k \in NodeIds :
                      IF k \in DOMAIN avg.byTaskAvg
                      THEN SameNumber(avg.byTaskAvg[k],
                                      [num |-> SumTaskAt(days, at, k), den |-> c])
                      ELSE SumTaskAt(days, at, k) = 0

\* a weekday with two included days and a weekday whose zero day is left out
C28_Witness ==
  /\ viewOut.stage >= 5
  /\ viewIn.excludeZeroDays
  /\ \E w \in 0..6 :
       /\ Cardinality(DowAt(viewOut.days, TRUE, w)) = 2
       /\ viewOut.dowData[w].totalAvg.num > 0
  /\ \E w \in 0..6 :
       /\ Cardinality(DowAt(viewOut.days, TRUE, w)) = 0
       /\ viewOut.dowData[w].totalAvg.num = 0

\* the interval invariant of one list of intervals: a closed interval ends
\* at or after its start, every interval but the last is closed, and every
\* interval starts at or after the end of the one before
WellFormed(ivs) ==
  /\ \A i \in 1..Len(ivs) : ivs[i].end # Null => ivs[i].end >= ivs[i].start
  /\ \A i \in 1..(Len(ivs) - 1) :
       /\ ivs[i].end # Null
       /\ ivs[i + 1].start >= ivs[i].end

\* C29: under a clock that never goes back, every session the timer commands
\* and the recovery actions produce keeps the interval invariant: persisted,
\* in state.sessions, held by the timer or by the recovery prompt.
C29_IntervalInvariant ==
  /\ \A id \in DOMAIN store : WellFormed(store[id].intervals)
  /\ \A i \in 1..Len(sessions) : WellFormed(sessions[i].intervals)
  /\ WellFormed(timer.intervals)
  /\ WellFormed(interruptedSession.intervals)

\* after a crash and a recovery action, a persisted session of two closed
\* intervals, the second starting when the first was closed
C29_Witness ==
  /\ \E id \in DOMAIN store :
       /\ Len(store[id].intervals) = 2
       /\ store[id].intervals[1].end = store[id].intervals[2].start
       /\ store[id].intervals[1].end > store[id].intervals[1].start
       /\ store[id].intervals[2].end > store[id].intervals[2].start
  /\ timer = NoTimer
  /\ scn = Derailed

RECURSIVE AncestorsWithin(_, _, _)
\* the ids reached from id by one to n parentId links
AncestorsWithin(cats, id, n) ==
  IF n = 0 \/ id \notin Ids(cats) \/ ItemOf(cats, id).parentId = NoId THEN {}
  ELSE {ItemOf(cats, id).parentId}
       \cup AncestorsWithin(cats, ItemOf(cats, id).parentId, n - 1)

\* C30: after any sequence of creations, edits (re-parenting included), moves
\* and deletions of the category screen, no item is reached from itself by
\* parentId links: no item is its own parent or the child of a descendant.
C30_NoCycle ==
  \A id \in Ids(categories) : id \notin AncestorsWithin(categories, id, Len(categories))

\* edits have re-parented the first two items: the first is in the second and
\* the second is in the third, the only folder left that could take the third
C30_Witness ==
  /\ Len(categories) = 3
  /\ ItemOf(categories, "c1").parentId = "c2"
  /\ ItemOf(categories, "c2").parentId = "c3"
  /\ ItemOf(categories, "c3").parentId = NoId
  /\ \A id \in Ids(categories) : ItemOf(categories, id).type = "folder"
  /\ folders(categories, "c3") = {}

\* C31: after any sequence of creations, edits (a change of type included)
\* and deletions of the category screen, every item's parentId is null or the
\* id of an item that still exists.
C31_ParentExists ==
  \A id \in Ids(categories) :
    ItemOf(categories, id).parentId \in {NoId} \cup Ids(categories)

\* the edges of the timer state machine
StatusEdges ==
  {<<"idle", "running">>, <<"running", "paused">>, <<"paused", "running">>,
   <<"running", "idle">>, <<"paused", "idle">>}

\* C32: a command changes the timer status only along idle -> running,
\* running -> paused, paused -> running, and running or paused -> idle, and
\* never moves a running timer to a running timer on another session.  (An
\* abnormal termination is no command.)
C32_StatusEdges ==
  [][~Crash =>
       /\ timer'.status # timer.status =>
            <<timer.status, timer'.status>> \in StatusEdges
       /\ (timer.status = "running" /\ timer'.status = "running") =>
            timer'.sessionId = timer.sessionId]_vars

\* C33: whenever a timer is active, a session with the timer's sessionId is
\* in the store and in the in-memory list, with the timer's taskId and the
\* timer's intervals.
C33_TimerMirrorsSession ==
  (loaded /\ timer # NoTimer) =>
    /\ timer.sessionId \in DOMAIN store
    /\ store[timer.sessionId] =
         Session(timer.sessionId, timer.taskId, timer.intervals)
    /\ \E i \in 1..Len(sessions) :
         sessions[i] = Session(timer.sessionId, timer.taskId, timer.intervals)

\* what a load of the persisted sessions detects as interrupted
Detected(st) == findInterruptedSession(dbGetAllSessions(st))

\* C34: given that no other session was left open before: a termination
\* while the timer is running leaves a store in which the next load detects
\* exactly the session of that timer as the interrupted one; a termination
\* while the timer is paused leaves a store in which the next load detects
\* none, and so does a stop (save or cancel) and a termination after it.  The
\* store does not change before the load, and the load sets the
\* interruptedSession to what it detects in the store.
C34_CrashRecovery ==
  [][/\ (Crash /\ timer.status = "running"
            /\ OpenSessions \subseteq {timer.sessionId}) =>
          Detected(store') = Session(timer.sessionId, timer.taskId, timer.intervals)
     /\ (Crash /\ timer.status # "running"
            /\ OpenSessions \subseteq {timer.sessionId}) =>
          Detected(store') = NoSession
     /\ ((\E save \in BOOLEAN : StopTimer(save)) /\ timer # NoTimer
            /\ OpenSessions \subseteq {timer.sessionId}) =>
          Detected(store') = NoSession
     /\ ~loaded => store' = store
     /\ Load => interruptedSession' = Detected(store)]_vars

\* a load after a termination has detected the only open session
C34_Witness ==
  /\ loaded
  /\ timer = NoTimer
  /\ Cardinality(OpenSessions) = 1
  /\ interruptedSession # NoSession
  /\ interruptedSession.id \in OpenSessions
  /\ nextId = 2

\* C35: while a timer is active its intervals are not empty; it is running
\* exactly when intervalStart is not null, and exactly when its last interval
\* is open; a running timer's intervalStart is the start of its last
\* interval; every interval of a paused timer is closed.
C35_TimerShape ==
  timer # NoTimer =>
    /\ Len(timer.intervals) > 0
    /\ timer.status \in {"running", "paused"}
    /\ (timer.status = "running") <=> (timer.intervalStart # Null)
    /\ (timer.intervalStart # Null) <=>
         (timer.intervals[Len(timer.intervals)].end = Null)
    /\ timer.status = "running" =>
         timer.intervalStart = timer.intervals[Len(timer.intervals)].start
    /\ timer.status = "paused" => OpenIn(timer.intervals) = 0

\* a timer adopted by recovery Resume has been paused
C35_Witness ==
  /\ timer # NoTimer
  /\ timer.status = "paused"
  /\ Len(timer.intervals) = 2
  /\ runMs = Null

C37_PromptNotLiveTimer ==
  (timer # NoTimer /\ interruptedSession # NoSession) =>
    interruptedSession.id # timer.sessionId

\* C38: when the user confirms the switch from a timer on task A to task B,
\* the stop of A has completed when the start of B begins: at that step A's
\* session is persisted with every interval closed, no timer is active and
\* B's session is not persisted yet.  When the start has completed, the timer
\* is running on a new session of B that has exactly one interval, an open
\* one, and A's session is still persisted with every interval closed.
C38_StopThenStart ==
  [][/\ SwitchSettle(TRUE) =>
          LET c == Head(calls) IN
            /\ timer' = NoTimer
            /\ c.session.id \in DOMAIN store'
            /\ OpenIn(store'[c.session.id].intervals) = 0
            /\ Len(calls') = 1
            /\ calls'[1].session.taskId = c.pendingNewTaskId
            /\ calls'[1].session.id \notin DOMAIN store'
     /\ (calls # <<>> /\ Head(calls).op = "switchStart" /\ DbSettle(TRUE)) =>
          LET c == Head(calls) IN
            /\ timer'.status = "running"
            /\ timer'.sessionId = c.session.id
            /\ timer'.taskId = c.session.taskId
            /\ c.session.id \in DOMAIN store'
            /\ store'[c.session.id].taskId = c.session.taskId
            /\ Len(store'[c.session.id].intervals) = 1
            /\ OpenIn(store'[c.session.id].intervals) = 1
            /\ c.stopped \in DOMAIN store'
            /\ c.stopped # c.session.id
            /\ store'[c.stopped].taskId # c.session.taskId
            /\ OpenIn(store'[c.stopped].intervals) = 0
     /\ (calls # <<>> /\ Head(calls).op = "switchStart") => timer = NoTimer]_vars

\* a switch from A to B has completed one tick after the start of A
C38_Witness ==
  /\ loaded
  /\ calls = <<>>
  /\ result = Fulfilled
  /\ timer = NewTimer(2, "B", Tick)
  /\ DOMAIN store = {1, 2}
  /\ store[1] = Session(1, "A", <<Interval(0, Tick)>>)
  /\ store[2] = Session(2, "B", <<Interval(Tick, Null)>>)

\* C39: the ancestor walk of computeEffectiveDisplay leaves its loop, for
\* every list of items: also when parentId links form a cycle or name no item.
C39_WalkTerminates == <>(viewOut.done)

\* C40: the merge keeps the days and their order and leaves the raw day data
\* as it was; the totalMs of every merged day is the sum of its merged byTask
\* values and the sum of the raw byTask values of exactly the tasks that have
\* a display id; the merged buckets are the display ids of those tasks, and
\* each bucket is the sum of the raw values of the tasks that share it.
C40_MergeConservesTime ==
  [][MergeDayDataWithDisplay =>
       /\ aggOut' = aggOut
       /\ Len(viewOut'.days) = Len(aggOut.days)
       /\ \A i \in 1..Len(aggOut.days) :
            LET raw == aggOut.days[i]
                merged == viewOut'.days[i]
                map == viewOut.effectiveMap
                shown == DOMAIN raw.byTask \cap DOMAIN map
            IN /\ merged.date = raw.date
               /\ merged.totalMs = SumMs(merged.byTask, DOMAIN merged.byTask)
               /\ merged.totalMs = SumMs(raw.byTask, shown)
               /\ DOMAIN merged.byTask = {map[t] : t \in shown}
               /\ \A d \in DOMAIN merged.byTask :
                    merged.byTask[d] =
                      SumMs(raw.byTask, {t \in shown : map[t] = d})]_vars

\* two tasks with time on the same day have been merged into one bucket,
\* next to a day on which only one of them has time
C40_Witness ==
  /\ viewOut.stage >= 2
  /\ \E i \in 1..Len(viewOut.days) :
       /\ Cardinality(DOMAIN aggOut.days[i].byTask) = 2
       /\ Cardinality(DOMAIN viewOut.days[i].byTask) = 1
       /\ viewOut.days[i].totalMs = aggOut.days[i].totalMs
       /\ viewOut.days[i].totalMs > 0
  /\ \E j \in 1..Len(viewOut.days) :
       Cardinality(DOMAIN aggOut.days[j].byTask) = 1

====
